---------------------------- MODULE Spec2Model ----------------------------
(***************************************************************************)
(* Model of the metadata-driven relation engine of enfyra-page-server:     *)
(* the Knex hook pipeline (hook-registry.ts, knex.service.ts), the         *)
(* relation transformer (transformRelationsToFK, syncManyToManyRelations)  *)
(* and the hook-wrapped insert / update / delete of wrapQueryBuilder.       *)
(*                                                                         *)
(* JavaScript values are encoded uniformly as records [k, n, items]:       *)
(* k is the value's kind, n its number (an id, or the index of a string),  *)
(* items the elements of an array.  A payload is a function from the keys  *)
(* it owns to values; a key that is absent is `undefined`.                 *)
(***************************************************************************)
EXTENDS Integers, Sequences, FiniteSets, TLC

\* ------------------------------------------------------------------ bounds
\* Largest identifier in the records handed to transformRelationsToFK alone.
MaxId == 2
\* Number of calls (requests) that may be in flight together.
MaxCalls == 2
\* Number of addHook / removeHook calls made after start-up.
MaxRegOps == 2

\* ------------------------------------------------------------------ values
Num(n) == [k |-> "number", n |-> n, items |-> <<>>]
Str(n) == [k |-> "string", n |-> n, items |-> <<>>]
Null == [k |-> "null", n |-> 0, items |-> <<>>]
Obj(n) == [k |-> "object", n |-> n, items |-> <<>>]
ObjNoId == [k |-> "objectNoId", n |-> 0, items |-> <<>>]
Bool == [k |-> "boolean", n |-> 1, items |-> <<>>]
Arr(s) == [k |-> "array", n |-> 0, items |-> s]
\* knex.raw('CURRENT_TIMESTAMP')
RawNow == [k |-> "raw", n |-> 0, items |-> <<>>]
\* JSON.stringify of an object value
JsonText(v) == [k |-> "json", n |-> v.n, items |-> v.items]

\* An array element: the same encoding without nested items.
Item(v) == [k |-> v.k, n |-> v.n]

Has(d, key) == key \in DOMAIN d
Without(d, keys) == [x \in (DOMAIN d) \ keys |-> d[x]]
With(d, key, v) == [x \in (DOMAIN d) \cup {key} |-> IF x = key THEN v ELSE d[x]]
Merge(d, e) == [x \in (DOMAIN d) \cup (DOMAIN e) |-> IF x \in DOMAIN e THEN e[x] ELSE d[x]]
EmptyRec == [x \in {} |-> Null]

\* ---------------------------------------------------------------- metadata
\* The table metadata served by MetadataCacheService.getMetadata(): Scenario A
\* of the specification (article, author -> user, tags -> tag through
\* article_tags), plus a one-to-one relation declared without foreignKeyColumn
\* and a one-to-many relation.
ArticleMeta ==
    [ name |-> "article",
      columns |-> << [name |-> "id", type |-> "int", isUpdatable |-> TRUE],
                     [name |-> "title", type |-> "varchar", isUpdatable |-> TRUE],
                     [name |-> "slug", type |-> "varchar", isUpdatable |-> FALSE],
                     [name |-> "meta", type |-> "json", isUpdatable |-> TRUE],
                     [name |-> "createdAt", type |-> "datetime", isUpdatable |-> TRUE],
                     [name |-> "updatedAt", type |-> "datetime", isUpdatable |-> TRUE] >>,
      relations |-> << [propertyName |-> "author", type |-> "many-to-one",
                        targetTable |-> "user", foreignKeyColumn |-> "authorId",
                        junctionTableName |-> "", junctionSourceColumn |-> "",
                        junctionTargetColumn |-> ""],
                       [propertyName |-> "editor", type |-> "one-to-one",
                        targetTable |-> "user", foreignKeyColumn |-> "",
                        junctionTableName |-> "", junctionSourceColumn |-> "",
                        junctionTargetColumn |-> ""],
                       [propertyName |-> "tags", type |-> "many-to-many",
                        targetTable |-> "tag", foreignKeyColumn |-> "",
                        junctionTableName |-> "article_tags",
                        junctionSourceColumn |-> "articleId",
                        junctionTargetColumn |-> "tagId"],
                       [propertyName |-> "comments", type |-> "one-to-many",
                        targetTable |-> "comment", foreignKeyColumn |-> "",
                        junctionTableName |-> "", junctionSourceColumn |-> "",
                        junctionTargetColumn |-> ""] >> ]

TableNames == {"article"}
NoMeta == [name |-> "", columns |-> <<>>, relations |-> <<>>]
\* metadata.tables.get(tableName) || metadata.tablesList.find(...)
LookupTable(tableName) == IF tableName = "article" THEN ArticleMeta ELSE NoMeta

\* `${relName}Id`
IdSuffixed(relName) ==
    CASE relName = "author" -> "authorId"
      [] relName = "editor" -> "editorId"
      [] relName = "tags" -> "tagsId"
      [] relName = "comments" -> "commentsId"
      [] OTHER -> "Id"

\* relation.foreignKeyColumn || `${relName}Id`
FkColumnOf(relation) ==
    IF relation.foreignKeyColumn # "" THEN relation.foreignKeyColumn
    ELSE IdSuffixed(relation.propertyName)

\* ------------------------------------------------- transformRelationsToFK
\* ToOneStep without the `delete transformed[relName]` of the {id} branch.
ToOneStepKeepsKey(relation, transformed) ==
    LET relName == relation.propertyName
        fkColumn == FkColumnOf(relation)
    IN IF relation.type \notin {"many-to-one", "one-to-one"} THEN transformed
       ELSE IF ~Has(transformed, relName) THEN transformed
       ELSE LET relValue == transformed[relName]
            IN IF relValue.k = "null"
                 THEN Without(With(transformed, fkColumn, Null), {relName})
               ELSE IF relValue.k = "object"
                 THEN With(transformed, fkColumn, Num(relValue.n))
               ELSE IF relValue.k \in {"number", "string"}
                 THEN Without(With(transformed, fkColumn, relValue), {relName})
               ELSE Without(transformed, {relName})

\* One pass of the first loop of transformRelationsToFK over one relation.
ToOneStep(relation, transformed) ==
    LET relName == relation.propertyName
        fkColumn == FkColumnOf(relation)
    IN IF relation.type \notin {"many-to-one", "one-to-one"} THEN transformed
       ELSE IF ~Has(transformed, relName) THEN transformed
       ELSE LET relValue == transformed[relName]
            IN IF relValue.k = "null"
                 THEN Without(With(transformed, fkColumn, Null), {relName})
               ELSE IF relValue.k = "object"
                 THEN Without(With(transformed, fkColumn, Num(relValue.n)), {relName})
               ELSE IF relValue.k \in {"number", "string"}
                 THEN Without(With(transformed, fkColumn, relValue), {relName})
               ELSE Without(transformed, {relName})

\* One pass of the second loop: to-many keys are dropped.
ToManyStep(relation, transformed) ==
    IF relation.type \in {"one-to-many", "many-to-many"}
       /\ Has(transformed, relation.propertyName)
    THEN Without(transformed, {relation.propertyName})
    ELSE transformed

RECURSIVE ToOneLoop(_, _, _)
ToOneLoop(relations, i, transformed) ==
    IF i > Len(relations) THEN transformed
    ELSE ToOneLoop(relations, i + 1, ToOneStep(relations[i], transformed))

RECURSIVE ToManyLoop(_, _, _)
ToManyLoop(relations, i, transformed) ==
    IF i > Len(relations) THEN transformed
    ELSE ToManyLoop(relations, i + 1, ToManyStep(relations[i], transformed))

transformRelationsToFK(tableName, data) ==
    IF tableName = "" THEN data
    ELSE LET tableMeta == LookupTable(tableName)
         IN IF tableMeta.name = "" THEN data
            ELSE ToManyLoop(tableMeta.relations, 1,
                            ToOneLoop(tableMeta.relations, 1, data))

\* ------------------------------------------------------------------ state
VARIABLES
    hooks,              \* KnexHookRegistry.hooks: event -> sequence of handlers
    regOps,             \* addHook / removeHook calls made after start-up
    cascadeContextMap,  \* table name -> captured relation payload (or NoCtx)
    rows,               \* the root table: id -> stored record (or NoRow)
    junction,           \* the junction table: <<owner, target>> -> number of rows
    nextId,             \* the root table's auto-increment counter
    calls,              \* the requests in flight: call -> its frame
    fkTable, fkIn, fkOut, fkPc,  \* the frame of one transformRelationsToFK call
    selReq, selOut, selPc,       \* the frame of one QueryBuilderService.select call
    whIn, whOut, whPc,           \* a where list and the rows each backend selects
    flReq, flOut, flPc,          \* a request filter and what each backend compiles it to
    idReq, idOut, idPc,          \* an identifier condition on the document backend
    exReq, exOut, exPc,          \* a field list and its expansion on the document backend
    delReq, delOut, delPc,       \* a delete and the tables it leaves
    txReq, txSt, txPc,           \* a transaction, its session and the store
    ivReq, ivOut, ivPc,          \* a declared relation and the relation rows made of it
    thReq, thSt, thPc            \* an awaited query builder and its select hooks

vars == << hooks, regOps, cascadeContextMap, rows, junction, nextId, calls,
           fkTable, fkIn, fkOut, fkPc, selReq, selOut, selPc, whIn, whOut, whPc,
           flReq, flOut, flPc, idReq, idOut, idPc,
           exReq, exOut, exPc, delReq, delOut, delPc,
           txReq, txSt, txPc, ivReq, ivOut, ivPc,
           thReq, thSt, thPc >>

\* ------------------------------------------------------- syncManyToMany
\* The many-to-many relations of a table that carry a complete junction
\* description (junctionTable && sourceColumn && targetColumn).
SyncRelations(tableName) ==
    LET rels == LookupTable(tableName).relations
    IN { i \in 1..Len(rels) :
           /\ rels[i].type = "many-to-many"
           /\ rels[i].junctionTableName # ""
           /\ rels[i].junctionSourceColumn # ""
           /\ rels[i].junctionTargetColumn # "" }

\* The relation properties syncManyToManyRelations acts on for `data`:
\* `relationName in data`.
SyncProps(tableName, data) ==
    { LookupTable(tableName).relations[i].propertyName : i \in
        { j \in SyncRelations(tableName) :
            Has(data, LookupTable(tableName).relations[j].propertyName) } }

\* !data.id
HasId(data) == Has(data, "id") /\ data["id"].k \in {"number", "string"} /\ data["id"].n # 0
IdOf(data) == IF HasId(data) THEN data["id"].n ELSE 0

\* typeof item === 'object' ? item.id : item, which throws a TypeError on a
\* null item (typeof null === 'object').
ItemThrows(item) == item.k = "null"
\* A filter that keeps bare ids only.
ItemKeptBareOnly(item) == item.k \in {"number", "string"}
\* id != null after the projection: an object without id gives undefined.
ItemKept(item) == item.k \in {"number", "string", "object"}

RECURSIVE KeptIds(_)
KeptIds(items) ==
    IF items = <<>> THEN <<>>
    ELSE IF ItemKept(Head(items)) THEN <<Head(items).n>> \o KeptIds(Tail(items))
    ELSE KeptIds(Tail(items))

\* newIds of syncManyToManyRelations: the ids of an array value, [] for any
\* other value.
NewIds(value) == IF value.k = "array" THEN KeptIds(value.items) ELSE <<>>
NewIdsThrows(value) ==
    value.k = "array" /\ \E i \in 1..Len(value.items) : ItemThrows(value.items[i])

\* ------------------------------------------------------ payload transforms
ColumnNames(tableMeta) == { tableMeta.columns[i].name : i \in 1..Len(tableMeta.columns) }
DeclaredFkColumns(tableMeta) ==
    { tableMeta.relations[i].foreignKeyColumn : i \in
        { j \in 1..Len(tableMeta.relations) : tableMeta.relations[j].foreignKeyColumn # "" } }

stripUnknownColumns(tableName, data) ==
    IF tableName = "" THEN data
    ELSE LET tableMeta == LookupTable(tableName)
         IN IF tableMeta.name = "" THEN data
            ELSE LET validColumns == ColumnNames(tableMeta) \cup DeclaredFkColumns(tableMeta)
                 IN Without(data, (DOMAIN data) \ validColumns)

\* A strip that removes nothing.
StripsNothing(tableName, data) == data

stripNonUpdatableFields(tableName, data) ==
    IF tableName = "" THEN data
    ELSE LET tableMeta == LookupTable(tableName)
         IN IF tableMeta.name = "" THEN data
            ELSE Without(data, { tableMeta.columns[i].name : i \in
                                   { j \in 1..Len(tableMeta.columns) :
                                       tableMeta.columns[j].isUpdatable = FALSE } })

\* stringifyRecordJsonFields(data, tableMetadata) of utils/json-parser: the
\* values of json-typed columns that are objects or arrays become JSON text.
stringifyRecordJsonFields(data, tableMeta) ==
    LET jsonColumns == { tableMeta.columns[i].name : i \in
                           { j \in 1..Len(tableMeta.columns) :
                               tableMeta.columns[j].type = "json" } }
    IN [ x \in DOMAIN data |->
           IF x \in jsonColumns /\ data[x].k \in {"object", "objectNoId", "array"}
           THEN JsonText(data[x]) ELSE data[x] ]

\* isJunctionTable(tableName): some relation of some table names it as its
\* junction table.
isJunctionTable(tableName) ==
    \E t \in TableNames : \E i \in 1..Len(LookupTable(t).relations) :
       /\ LookupTable(t).relations[i].type = "many-to-many"
       /\ LookupTable(t).relations[i].junctionTableName = tableName

\* const { createdAt, updatedAt, created_at, updated_at, CreatedAt, UpdatedAt, ...rest } = data
TimestampKeys == {"createdAt", "updatedAt", "created_at", "updated_at", "CreatedAt", "UpdatedAt"}

\* The list-valued keys of a payload: Array.isArray(data[key]).
ListKeys(data) == { x \in DOMAIN data : data[x].k = "array" }
CaptureRelationData(data) == [ x \in ListKeys(data) |-> data[x] ]

\* ------------------------------------------------------------ the backend
\* The junction table is a bag of <<owner, target>> rows: pair -> row count.
EmptyBag == [p \in {} |-> 0]
BagAdd(b, e) ==
    [ x \in (DOMAIN b) \cup {e} |->
        IF x = e THEN (IF e \in DOMAIN b THEN b[e] + 1 ELSE 1) ELSE b[x] ]

RECURSIVE BagOfSeq(_)
BagOfSeq(ids) == IF ids = <<>> THEN EmptyBag ELSE BagAdd(BagOfSeq(Tail(ids)), Head(ids))

RECURSIVE BagSize(_)
BagSize(b) ==
    IF DOMAIN b = {} THEN 0
    ELSE LET e == CHOOSE x \in DOMAIN b : TRUE
         IN b[e] + BagSize([x \in (DOMAIN b) \ {e} |-> b[x]])

\* A delete that matches no row.
JunctionDeleteNothing(j, owner) == j

\* knex(junctionTable).where(sourceColumn, owner).delete()
JunctionDelete(j, owner) == [ p \in { q \in DOMAIN j : q[1] # owner } |-> j[p] ]

\* knex(junctionTable).insert(newIds.map(targetId => ({source: owner, target: targetId})))
RECURSIVE JunctionInsert(_, _, _)
JunctionInsert(j, owner, ids) ==
    IF ids = <<>> THEN j
    ELSE JunctionInsert(BagAdd(j, <<owner, Head(ids)>>), owner, Tail(ids))

\* The rows of one owner, as a bag of target ids.
OwnerRows(j, owner) ==
    [ t \in { q[2] : q \in { r \in DOMAIN j : r[1] = owner } } |-> j[<<owner, t>>] ]
\* The rows of every other owner.
OtherRows(j, owner) == [ p \in { q \in DOMAIN j : q[1] # owner } |-> j[p] ]

\* ------------------------------------------------------------- the hooks
Events == {"beforeInsert", "afterInsert", "beforeUpdate", "afterUpdate",
           "beforeDelete", "afterDelete"}

\* The chains with the sync / FK handler of beforeUpdate left unregistered.
DefaultHooksNoSync ==
    [ beforeInsert |-> <<"biCapture", "biStrip", "biJson", "biStamp">>,
      afterInsert  |-> <<"aiCascade">>,
      beforeUpdate |-> <<"buStrip", "buJson", "buNonUpdatable", "buStamp">>,
      afterUpdate  |-> <<"auCascade">>,
      beforeDelete |-> <<>>,
      afterDelete  |-> <<>> ]

\* The chains with the unknown-column strip of beforeInsert registered first.
DefaultHooksStripFirst ==
    [ beforeInsert |-> <<"biStrip", "biCapture", "biJson", "biStamp">>,
      afterInsert  |-> <<"aiCascade">>,
      beforeUpdate |-> <<"buCapture", "buStrip", "buJson", "buNonUpdatable", "buStamp">>,
      afterUpdate  |-> <<"auCascade">>,
      beforeDelete |-> <<>>,
      afterDelete  |-> <<>> ]

\* The chains after registerDefaultHooks(cascadeContextMap).
DefaultHooks ==
    [ beforeInsert |-> <<"biCapture", "biStrip", "biJson", "biStamp">>,
      afterInsert  |-> <<"aiCascade">>,
      beforeUpdate |-> <<"buCapture", "buStrip", "buJson", "buNonUpdatable", "buStamp">>,
      afterUpdate  |-> <<"auCascade">>,
      beforeDelete |-> <<>>,
      afterDelete  |-> <<>> ]

CaptureHandlers == {"biCapture", "buCapture"}
CascadeHandlers == {"aiCascade", "auCascade"}
\* Handlers a caller registers with addHook: one rewrites the title, one
\* copies the title into meta (so their order shows in the result), one throws,
\* one adds a key that is no column of the table.
CustomHandlers == {"custTitle", "custCopy", "custThrow", "custExtra"}
CustomEvents == {"beforeInsert", "beforeUpdate"}

\* The body of a handler that is one transform of its last argument.
SimpleHandler(h, tableName, data) ==
    CASE h \in {"biStrip", "buStrip"} -> stripUnknownColumns(tableName, data)
      [] h \in {"biJson", "buJson"} ->
           IF LookupTable(tableName).name = "" THEN data
           ELSE stringifyRecordJsonFields(data, LookupTable(tableName))
      [] h = "biStamp" ->
           IF isJunctionTable(tableName) THEN data
           ELSE With(With(Without(data, TimestampKeys), "createdAt", RawNow),
                     "updatedAt", RawNow)
      [] h = "buNonUpdatable" ->
           stripNonUpdatableFields(tableName, Without(data, TimestampKeys))
      [] h = "buStamp" ->
           IF isJunctionTable(tableName) THEN data ELSE With(data, "updatedAt", RawNow)
      [] h = "custTitle" -> With(data, "title", Str(9))
      [] h = "custCopy" ->
           IF Has(data, "title") THEN With(data, "meta", data["title"]) ELSE data
      [] h = "custExtra" -> With(data, "extra", Num(1))
      [] OTHER -> data

HandlerThrows(h) == h = "custThrow"

\* What a handler that is one transform does, as a step of the pipeline.
StepOf(h) ==
    CASE h \in {"biStrip", "buStrip"} -> "strip"
      [] h \in {"biJson", "buJson"} -> "json"
      [] h \in {"biStamp", "buStamp"} -> "stamp"
      [] h = "buNonUpdatable" -> "nonUpdatable"
      [] OTHER -> "custom"

\* The step a handler starts at.
EntryStep(h) ==
    IF h \in CaptureHandlers THEN "capture"
    ELSE IF h \in CascadeHandlers THEN "cascade"
    ELSE "run"

\* runHooks, line `args[args.length - 1] = result`: the next handler's last
\* argument.
NextArgsKeepsInput(args, result) == args
NextArgs(args, result) == result

\* ------------------------------------------------------------- requests
RootTable == "article"
Calls == 1..MaxCalls

\* The insert payloads the callers send.
InsertPayloads ==
    { [title |-> Str(1), author |-> Obj(1), tags |-> Arr(<<Item(Obj(1)), Item(Obj(2))>>)],
      [title |-> Str(2), tags |-> Arr(<<Item(Num(3))>>)],
      [title |-> Str(1), bogus |-> Num(1), meta |-> ObjNoId, createdAt |-> Str(5)],
      [id |-> Num(4), title |-> Str(2), tags |-> Arr(<<Item(Num(2)), Item(Obj(2))>>)] }

\* The update requests: knex(table).where('id', whereId).update(data).
UpdateRequests ==
    { [whereId |-> 1, data |-> [id |-> Num(1), tags |-> Arr(<<Item(Obj(2)), Item(Num(3))>>)]],
      [whereId |-> 1, data |-> [id |-> Num(1), title |-> Str(2), tags |-> Arr(<<Item(Num(1))>>)]],
      [whereId |-> 1, data |-> [id |-> Num(1), tags |-> Arr(<<Item(Null)>>)]],
      [whereId |-> 2, data |-> [id |-> Num(2), title |-> Str(2), author |-> Null,
                                slug |-> Str(1), createdAt |-> Str(5), tags |-> Arr(<<>>)]],
      [whereId |-> 2, data |-> [id |-> Num(2), title |-> Str(3)]],
      [whereId |-> 1, data |-> [id |-> Num(1), title |-> Str(2), tags |-> Null]],
      [whereId |-> 1, data |-> [title |-> Str(3), tags |-> Arr(<<Item(Num(2))>>)]] }

DeleteRequests == { [whereId |-> 2] }

Requests ==
    { [op |-> "insert", whereId |-> 0, data |-> d] : d \in InsertPayloads }
    \cup { [op |-> "update", whereId |-> r.whereId, data |-> r.data] : r \in UpdateRequests }
    \cup { [op |-> "delete", whereId |-> r.whereId, data |-> EmptyRec] : r \in DeleteRequests }

BeforeEvent(op) ==
    CASE op = "insert" -> "beforeInsert"
      [] op = "update" -> "beforeUpdate"
      [] OTHER -> "beforeDelete"
AfterEvent(op) ==
    CASE op = "insert" -> "afterInsert"
      [] op = "update" -> "afterUpdate"
      [] OTHER -> "afterDelete"
BeforeEvents == {"beforeInsert", "beforeUpdate", "beforeDelete"}

\* --------------------------------------------------------------- frames
NoCtx == [present |-> FALSE, relationData |-> EmptyRec, recordId |-> 0, by |-> 0]

\* The frame of one hook-wrapped insert / update / delete:
\*   pc       idle, chain (between two handlers of runHooks), handler,
\*            write (the original statement is about to be issued), done, failed
\*   idx      handlers of the current chain already taken by the for-of loop
\*   cur, hpc the handler being run and the step it is at
\*   args     the last argument of runHooks;  res  its local `result`
\*   runs     one record per runHooks call of this frame
\*   err      the error the call was rejected with, errAt / errIn the chain
\*            and the handler that threw it
\*   trace    the statements this frame has had the backend execute, each
\*            with the chain and the handler that issued it
\*   pre, post the junction table when the call began and when it resolved
\*   steps    the steps of the pipeline this frame has started, in order
\*   synced   whether syncManyToManyRelations has replaced the owner's rows,
\*   mid      and the junction table as its last statement left it
\*   captured the Cascade Context entry this frame stored
\*   consumed the entries its after-hook handed to handleCascadeRelations
Idle ==
    [ pc |-> "idle", op |-> "none", data |-> EmptyRec, whereId |-> 0,
      event |-> "", idx |-> 0, cur |-> "", hpc |-> "",
      args |-> EmptyRec, res |-> EmptyRec, out |-> EmptyRec,
      err |-> "", errAt |-> "", errIn |-> "",
      runs |-> <<>>, trace |-> <<>>, captured |-> NoCtx, consumed |-> <<>>,
      pre |-> EmptyBag, post |-> EmptyBag, synced |-> FALSE, mid |-> EmptyBag,
      steps |-> <<>> ]

Active(f) == f.pc \in {"chain", "handler", "write"}
Finished(f) == f.pc \in {"done", "failed"}

\* const result = args[args.length - 1] at the start of runHooks(event, ...args)
StartRun(f, ev, input) ==
    [ f EXCEPT !.pc = "chain", !.event = ev, !.idx = 0, !.cur = "", !.hpc = "",
               !.args = input, !.res = input,
               !.runs = Append(@, [ event |-> ev, input |-> input, chain0 |-> hooks[ev],
                                    touched |-> FALSE, finished |-> FALSE,
                                    result |-> input, invoked |-> <<>> ]) ]

\* A handler resolved with `output`: result = await ...; args[last] = result.
HandlerReturn(f, output) ==
    [ f EXCEPT !.pc = "chain", !.cur = "", !.hpc = "",
               !.res = output, !.args = NextArgs(f.args, output),
               !.runs[Len(f.runs)].invoked =
                   Append(@, [h |-> f.cur, in |-> f.args, out |-> output]) ]

\* A handler rejected: the await in runHooks throws, and nothing catches it in
\* runHooks or in the wrapped insert / update / delete.
\* A runHooks that catches the rejection and goes on with the next handler.
CallRejectsSwallowed(f, e) ==
    [ f EXCEPT !.pc = "chain", !.cur = "", !.hpc = "",
               !.err = e, !.errAt = f.event, !.errIn = f.cur ]

CallRejects(f, e) ==
    [ f EXCEPT !.pc = "failed", !.err = e, !.errAt = f.event, !.errIn = f.cur ]

Stmt(f, s) == [s |-> s, ev |-> f.event, h |-> f.cur]

\* -------------------------------------------------------------- actions
FkFrame == << fkTable, fkIn, fkOut, fkPc >>
SelFrame == << selReq, selOut, selPc >>
WhereFrame == << whIn, whOut, whPc >>
FilterFrame == << flReq, flOut, flPc >>
\* The frames of the calls modelled on their own further below.
IdFrame == << idReq, idOut, idPc >>
ExpandFrame == << exReq, exOut, exPc >>
DeleteFrame == << delReq, delOut, delPc >>
TxFrame == << txReq, txSt, txPc >>
InverseFrame == << ivReq, ivOut, ivPc >>
ThenFrame == << thReq, thSt, thPc >>
LateFrames == << InverseFrame, ThenFrame >>
MoreFrames == << FilterFrame, IdFrame, ExpandFrame, DeleteFrame, TxFrame, LateFrames >>
SetCall(c, f) == calls' = [calls EXCEPT ![c] = f]

\* A caller issues knex(table).insert(data) / .where('id', w).update(data) /
\* .where('id', w).delete(): the wrapped method calls runHooks('before...').
BeginWith(c, req) ==
    SetCall(c, StartRun([Idle EXCEPT !.op = req.op, !.data = req.data,
                                     !.whereId = req.whereId, !.pre = junction],
                        BeforeEvent(req.op),
                        IF req.op = "delete" THEN Arr(<<>>) ELSE req.data))

\* Calls are interchangeable, so they are numbered in the order they begin.
Begin(c) ==
    /\ calls[c].pc = "idle"
    /\ \A d \in Calls : d < c => calls[d].pc # "idle"
    /\ \E req \in Requests : BeginWith(c, req)
    /\ UNCHANGED << hooks, regOps, cascadeContextMap, rows, junction, nextId, FkFrame, SelFrame, WhereFrame, MoreFrames >>

\* The same, with one request at a time.
BeginAlone(c) ==
    /\ calls[c].pc = "idle"
    /\ \A d \in Calls : d < c => calls[d].pc # "idle"
    /\ \A d \in Calls : ~Active(calls[d])
    /\ \E req \in Requests : BeginWith(c, req)
    /\ UNCHANGED << hooks, regOps, cascadeContextMap, rows, junction, nextId, FkFrame, SelFrame, WhereFrame, MoreFrames >>

\* The same, for the first request only.
BeginFirst(c) ==
    /\ c = 1
    /\ calls[c].pc = "idle"
    /\ \E req \in Requests : BeginWith(c, req)
    /\ UNCHANGED << hooks, regOps, cascadeContextMap, rows, junction, nextId, FkFrame, SelFrame, WhereFrame, MoreFrames >>

\* runHooks: the for-of loop takes the next handler of the chain and calls it.
InvokeHook(c) ==
    LET f == calls[c] IN
    /\ f.pc = "chain"
    /\ f.idx < Len(hooks[f.event])
    /\ SetCall(c, [ f EXCEPT !.pc = "handler", !.idx = f.idx + 1,
                              !.cur = hooks[f.event][f.idx + 1],
                              !.hpc = EntryStep(hooks[f.event][f.idx + 1]) ])
    /\ UNCHANGED << hooks, regOps, cascadeContextMap, rows, junction, nextId, FkFrame, SelFrame, WhereFrame, MoreFrames >>

\* runHooks returns `result`; a before-chain hands it to the original
\* statement, an after-chain to the caller.
ChainEnd(c) ==
    LET f == calls[c]
        g == [ f EXCEPT !.runs[Len(f.runs)].finished = TRUE,
                        !.runs[Len(f.runs)].result = f.res ]
    IN
    /\ f.pc = "chain"
    /\ f.idx >= Len(hooks[f.event])
    /\ IF f.event \in BeforeEvents
       THEN SetCall(c, [ g EXCEPT !.pc = "write" ])
       ELSE SetCall(c, [ g EXCEPT !.pc = "done", !.out = f.res,
                                  !.post = junction ])
    /\ UNCHANGED << hooks, regOps, cascadeContextMap, rows, junction, nextId, FkFrame, SelFrame, WhereFrame, MoreFrames >>

\* A handler that is one transform of its argument runs and resolves, or throws.
RunHandler(c) ==
    LET f == calls[c] IN
    /\ f.pc = "handler" /\ f.hpc = "run"
    /\ IF HandlerThrows(f.cur)
       THEN SetCall(c, CallRejects(f, "HandlerError"))
       ELSE SetCall(c, HandlerReturn([ f EXCEPT !.steps = Append(@, StepOf(f.cur)) ],
                                     SimpleHandler(f.cur, RootTable, f.args)))
    /\ UNCHANGED << hooks, regOps, cascadeContextMap, rows, junction, nextId, FkFrame, SelFrame, WhereFrame, MoreFrames >>

\* First beforeInsert / beforeUpdate handler, up to its first await: the
\* list-valued keys are stored under the table name.
HookCapture(c) ==
    LET f == calls[c]
        entry == [ present |-> TRUE, relationData |-> CaptureRelationData(f.args),
                   recordId |-> IF f.cur = "buCapture" THEN IdOf(f.args) ELSE 0,
                   by |-> c ]
    IN
    /\ f.pc = "handler" /\ f.hpc = "capture"
    /\ cascadeContextMap' = [cascadeContextMap EXCEPT ![RootTable] = entry]
    /\ SetCall(c, [ f EXCEPT !.hpc = "sync", !.captured = entry,
                              !.steps = Append(@, "capture") ])
    /\ UNCHANGED << hooks, regOps, rows, junction, nextId, FkFrame, SelFrame, WhereFrame, MoreFrames >>

\* syncManyToManyRelations acts on `data` when it has an id and carries a
\* many-to-many key.
SyncApplies(data) == HasId(data) /\ SyncProps(RootTable, data) # {}
SyncProp(data) == CHOOSE p \in SyncProps(RootTable, data) : TRUE

\* syncManyToManyRelations returns without touching the junction table.
SyncSkip(c) ==
    LET f == calls[c] IN
    /\ f.pc = "handler" /\ f.hpc = "sync"
    /\ ~SyncApplies(f.args)
    /\ SetCall(c, [ f EXCEPT !.hpc = "fk" ])
    /\ UNCHANGED << hooks, regOps, cascadeContextMap, rows, junction, nextId, FkFrame, SelFrame, WhereFrame, MoreFrames >>

\* The projection of the array to ids throws on a null item.
SyncThrow(c) ==
    LET f == calls[c] IN
    /\ f.pc = "handler" /\ f.hpc = "sync"
    /\ SyncApplies(f.args)
    /\ NewIdsThrows(f.args[SyncProp(f.args)])
    /\ SetCall(c, CallRejects(f, "TypeError"))
    /\ UNCHANGED << hooks, regOps, cascadeContextMap, rows, junction, nextId, FkFrame, SelFrame, WhereFrame, MoreFrames >>

\* await knexInstance(junctionTable).where(sourceColumn, data.id).delete()
SyncDelete(c) ==
    LET f == calls[c] IN
    /\ f.pc = "handler" /\ f.hpc = "sync"
    /\ SyncApplies(f.args)
    /\ ~NewIdsThrows(f.args[SyncProp(f.args)])
    /\ junction' = JunctionDelete(junction, IdOf(f.args))
    /\ SetCall(c, [ f EXCEPT !.trace = Append(@, Stmt(f, "junctionDelete")),
                              !.hpc = IF Len(NewIds(f.args[SyncProp(f.args)])) > 0
                                      THEN "syncInsert" ELSE "fk",
                              !.synced = Len(NewIds(f.args[SyncProp(f.args)])) = 0,
                              !.mid = JunctionDelete(junction, IdOf(f.args)) ])
    /\ UNCHANGED << hooks, regOps, cascadeContextMap, rows, nextId, FkFrame, SelFrame, WhereFrame, MoreFrames >>

\* await knexInstance(junctionTable).insert(junctionData)
SyncInsert(c) ==
    LET f == calls[c] IN
    /\ f.pc = "handler" /\ f.hpc = "syncInsert"
    /\ junction' = JunctionInsert(junction, IdOf(f.args), NewIds(f.args[SyncProp(f.args)]))
    /\ SetCall(c, [ f EXCEPT !.trace = Append(@, Stmt(f, "junctionInsert")),
                              !.hpc = "fk", !.synced = TRUE,
                              !.mid = JunctionInsert(junction, IdOf(f.args),
                                                     NewIds(f.args[SyncProp(f.args)])) ])
    /\ UNCHANGED << hooks, regOps, cascadeContextMap, rows, nextId, FkFrame, SelFrame, WhereFrame, MoreFrames >>

\* Either junction statement is rejected by the backend.
SyncFails(c) ==
    LET f == calls[c] IN
    /\ f.pc = "handler"
    /\ \/ f.hpc = "syncInsert"
       \/ f.hpc = "sync" /\ SyncApplies(f.args) /\ ~NewIdsThrows(f.args[SyncProp(f.args)])
    /\ SetCall(c, CallRejects(f, "BackendError"))
    /\ UNCHANGED << hooks, regOps, cascadeContextMap, rows, junction, nextId, FkFrame, SelFrame, WhereFrame, MoreFrames >>

\* return this.transformRelationsToFK(tableName, data)
HookFk(c) ==
    LET f == calls[c] IN
    /\ f.pc = "handler" /\ f.hpc = "fk"
    /\ SetCall(c, HandlerReturn([ f EXCEPT !.steps = Append(@, "fk") ],
                                 transformRelationsToFK(RootTable, f.args)))
    /\ UNCHANGED << hooks, regOps, cascadeContextMap, rows, junction, nextId, FkFrame, SelFrame, WhereFrame, MoreFrames >>

\* The original insert / update / delete, as the backend executes it.
\* insert: the row gets the supplied id, else the next auto-increment id.
InsertId(data) == IF HasId(data) THEN IdOf(data) ELSE nextId
WriteOk(f) == f.op = "insert" => InsertId(f.res) \notin DOMAIN rows
RowsAfter(f) ==
    CASE f.op = "insert" ->
           [ i \in (DOMAIN rows) \cup {InsertId(f.res)} |->
               IF i = InsertId(f.res) THEN With(f.res, "id", Num(InsertId(f.res)))
               ELSE rows[i] ]
      [] f.op = "update" ->
           [ i \in DOMAIN rows |-> IF i = f.whereId THEN Merge(rows[i], f.res) ELSE rows[i] ]
      [] OTHER -> [ i \in (DOMAIN rows) \ {f.whereId} |-> rows[i] ]
\* What the statement resolves to: the new id, or the number of rows affected.
WriteResult(f) ==
    IF f.op = "insert" THEN Num(InsertId(f.res))
    ELSE Num(IF f.whereId \in DOMAIN rows THEN 1 ELSE 0)

\* const result = await original.call(this, processedData); then
\* runHooks('after...', tableName, result).
BackendWrite(c) ==
    LET f == calls[c] IN
    /\ f.pc = "write"
    /\ WriteOk(f)
    /\ rows' = RowsAfter(f)
    /\ nextId' = IF f.op = "insert" /\ InsertId(f.res) >= nextId
                 THEN InsertId(f.res) + 1 ELSE nextId
    /\ SetCall(c, StartRun([ f EXCEPT !.trace = Append(@, Stmt(f, "write")),
                                      !.steps = Append(@, "write") ],
                           AfterEvent(f.op), WriteResult(f)))
    /\ UNCHANGED << hooks, regOps, cascadeContextMap, junction, FkFrame, SelFrame, WhereFrame, MoreFrames >>

\* The statement is rejected (a duplicate key, a lost connection, ...): the
\* await throws out of the wrapped method.
BackendWriteFails(c) ==
    LET f == calls[c] IN
    /\ f.pc = "write"
    /\ SetCall(c, CallRejects(f, "BackendError"))
    /\ UNCHANGED << hooks, regOps, cascadeContextMap, rows, junction, nextId, FkFrame, SelFrame, WhereFrame, MoreFrames >>

\* handleCascadeRelations(tableName, recordId, cascadeContextMap): the entry of
\* the table is read, each many-to-many list it holds replaces the junction
\* rows of recordId, and the entry is cleared.
CascadeCleared(map, tableName) == [map EXCEPT ![tableName] = NoCtx]

CascadeJunction(j, relationData, recordId) ==
    IF recordId = 0 \/ SyncProps(RootTable, relationData) = {} THEN j
    ELSE JunctionInsert(JunctionDelete(j, recordId), recordId,
                        NewIds(relationData[SyncProp(relationData)]))

\* afterInsert: handleCascadeRelations(tableName, result, map); return result.
\* afterUpdate: without an entry for the table, return result; else
\* handleCascadeRelations(tableName, context.recordId, map); return result.
CascadeRun(c) ==
    LET f == calls[c]
        ctx == cascadeContextMap[RootTable]
        recordId == IF f.cur = "aiCascade" THEN f.args.n ELSE ctx.recordId
    IN
    /\ f.pc = "handler" /\ f.hpc = "cascade"
    /\ IF ctx.present
       THEN /\ junction' = CascadeJunction(junction, ctx.relationData, recordId)
            /\ cascadeContextMap' = CascadeCleared(cascadeContextMap, RootTable)
            /\ SetCall(c, HandlerReturn([ f EXCEPT !.consumed = Append(@, ctx),
                                                    !.trace = Append(@, Stmt(f, "cascade")),
                                                    !.steps = Append(@, "cascade") ],
                                        f.args))
       ELSE /\ UNCHANGED << junction, cascadeContextMap >>
            /\ SetCall(c, HandlerReturn([ f EXCEPT !.steps = Append(@, "cascade") ], f.args))
    /\ UNCHANGED << hooks, regOps, rows, nextId, FkFrame, SelFrame, WhereFrame, MoreFrames >>

\* handleCascadeRelations rejects: the backend refuses a junction statement it
\* issues for the entry, and the await throws out of the after-hook.
CascadeFails(c) ==
    LET f == calls[c]
        ctx == cascadeContextMap[RootTable]
        recordId == IF f.cur = "aiCascade" THEN f.args.n ELSE ctx.recordId
    IN
    /\ f.pc = "handler" /\ f.hpc = "cascade"
    /\ ctx.present /\ recordId # 0 /\ SyncProps(RootTable, ctx.relationData) # {}
    /\ SetCall(c, CallRejects(f, "BackendError"))
    /\ UNCHANGED << hooks, regOps, cascadeContextMap, rows, junction, nextId, FkFrame, SelFrame, WhereFrame, MoreFrames >>

\* addHook(event, handler) / removeHook(event, handler) while requests are
\* served.  A run of the event that is under way sees the chain change.
Touch(ev) ==
    [ c \in Calls |->
        IF calls[c].pc \in {"chain", "handler"} /\ calls[c].event = ev
        THEN [ calls[c] EXCEPT !.runs[Len(calls[c].runs)].touched = TRUE ]
        ELSE calls[c] ]

AddHook(ev, h) ==
    /\ regOps < MaxRegOps
    /\ regOps' = regOps + 1
    /\ hooks' = [hooks EXCEPT ![ev] = Append(@, h)]
    /\ calls' = Touch(ev)
    /\ UNCHANGED << cascadeContextMap, rows, junction, nextId, FkFrame, SelFrame, WhereFrame, MoreFrames >>

\* this.hooks[event].indexOf(handler)
IndexOf(chain, h) ==
    IF \E i \in 1..Len(chain) : chain[i] = h
    THEN CHOOSE i \in 1..Len(chain) : chain[i] = h /\ \A j \in 1..(i - 1) : chain[j] # h
    ELSE 0
\* this.hooks[event].splice(index, 1)
Splice(chain, i) == SubSeq(chain, 1, i - 1) \o SubSeq(chain, i + 1, Len(chain))

RemoveHook(ev, h) ==
    /\ regOps < MaxRegOps
    /\ IndexOf(hooks[ev], h) > 0
    /\ regOps' = regOps + 1
    /\ hooks' = [hooks EXCEPT ![ev] = Splice(@, IndexOf(@, h))]
    /\ calls' = Touch(ev)
    /\ UNCHANGED << cascadeContextMap, rows, junction, nextId, FkFrame, SelFrame, WhereFrame, MoreFrames >>

\* ------------------------------------------------------- specifications
SeedRows ==
    [ i \in {1, 2} |-> [id |-> Num(i), title |-> Str(1),
                        createdAt |-> RawNow, updatedAt |-> RawNow] ]
SeedJunction == BagAdd(BagAdd(BagAdd(EmptyBag, <<1, 1>>), <<1, 2>>), <<2, 1>>)

InitBackend ==
    /\ hooks = DefaultHooks
    /\ regOps = 0
    /\ cascadeContextMap = [t \in TableNames |-> NoCtx]
    /\ rows = SeedRows
    /\ junction = SeedJunction
    /\ nextId = 3
    /\ calls = [c \in Calls |-> Idle]

\* No transformRelationsToFK call, select call or where list on its own.
FkOff == fkTable = "" /\ fkIn = EmptyRec /\ fkOut = EmptyRec /\ fkPc = "off"
SelOff == selReq = EmptyRec /\ selOut = EmptyRec /\ selPc = "off"
WhereOff == whIn = <<>> /\ whOut = EmptyRec /\ whPc = "off"
FilterOff == flReq = EmptyRec /\ flOut = EmptyRec /\ flPc = "off"
IdOff == idReq = EmptyRec /\ idOut = EmptyRec /\ idPc = "off"
ExpandOff == exReq = EmptyRec /\ exOut = EmptyRec /\ exPc = "off"
DeleteOff == delReq = EmptyRec /\ delOut = EmptyRec /\ delPc = "off"
TxOff == txReq = EmptyRec /\ txSt = EmptyRec /\ txPc = "off"
InverseOff == ivReq = EmptyRec /\ ivOut = <<>> /\ ivPc = "off"
ThenOff == thReq = EmptyRec /\ thSt = EmptyRec /\ thPc = "off"
LateOff == InverseOff /\ ThenOff
MoreOff == FilterOff /\ IdOff /\ ExpandOff /\ DeleteOff /\ TxOff /\ LateOff

Init ==
    /\ InitBackend
    /\ FkOff /\ SelOff /\ WhereOff /\ MoreOff

Step(c) ==
    \/ InvokeHook(c) \/ ChainEnd(c) \/ RunHandler(c)
    \/ HookCapture(c) \/ SyncSkip(c) \/ SyncThrow(c) \/ SyncDelete(c) \/ SyncInsert(c)
    \/ SyncFails(c) \/ HookFk(c)
    \/ BackendWrite(c) \/ BackendWriteFails(c) \/ CascadeRun(c) \/ CascadeFails(c)

\* Requests overlap: any call may take its next step.
Next == \E c \in Calls : Begin(c) \/ Step(c)
Spec == Init /\ [][Next]_vars

\* Requests are served one after the other.
NextSeq == \E c \in Calls : BeginAlone(c) \/ Step(c)
SpecSeq == Init /\ [][NextSeq]_vars

\* One request, while callers add and remove their own handlers.
NextReg ==
    \/ \E c \in Calls : BeginFirst(c) \/ Step(c)
    \/ \E ev \in CustomEvents, h \in CustomHandlers : AddHook(ev, h) \/ RemoveHook(ev, h)
SpecReg == Init /\ [][NextReg]_vars

\* transformRelationsToFK(tableName, record) on its own, for every record of
\* a bounded family: each key absent or holding one value of each shape.
Undefined == [k |-> "undefined", n |-> 0, items |-> <<>>]
Present(r) == [ x \in { y \in DOMAIN r : r[y] # Undefined } |-> r[x] ]
ToOneValues ==
    {Undefined, Null, ObjNoId, Bool, Arr(<<>>)}
    \cup { Obj(i) : i \in 1..MaxId } \cup { Num(i) : i \in 1..MaxId }
    \cup { Str(i) : i \in 1..MaxId }
FkInputs ==
    { Present(r) : r \in
        [ author : ToOneValues,
          editor : {Undefined, Null, Obj(1), Num(MaxId)},
          authorId : {Undefined, Null, Num(1)},
          title : {Undefined, Str(1)},
          tags : {Undefined, Arr(<<>>), Arr(<<Item(Num(1))>>), Num(1)},
          comments : {Undefined, Arr(<<Item(Obj(1))>>)} ] }
FkTables == {"article", "", "ghost"}

InitFK ==
    /\ InitBackend
    /\ fkTable \in FkTables /\ fkIn \in FkInputs
    /\ fkOut = EmptyRec /\ fkPc = "ready"
    /\ SelOff /\ WhereOff /\ MoreOff

FkApply ==
    /\ fkPc = "ready"
    /\ fkOut' = transformRelationsToFK(fkTable, fkIn)
    /\ fkPc' = "done"
    /\ UNCHANGED << hooks, regOps, cascadeContextMap, rows, junction, nextId, calls,
                    fkTable, fkIn, SelFrame, WhereFrame, MoreFrames >>

NextFK == FkApply
SpecFK == InitFK /\ [][NextFK]_vars

\* ------------------------------------------------------------- the select
\* QueryBuilderService.select over one table.  Rows are functions from column
\* names to numbers; a field name is the sequence of its dot-separated
\* segments, so <<"article", "title">> is "article.title".

\* Largest page and largest limit a request names.
MaxPage == 3
MaxLimit == 2
\* An option the caller left out (undefined).
Absent == -1

\* The rows of the table in the order the backend stores them, the same
\* logical rows in both backends; note is a nullable column, 0 where it has
\* no value.
SelTable ==
    << [id |-> 1, title |-> 3, status |-> 1, note |-> 0],
       [id |-> 2, title |-> 1, status |-> 1, note |-> 1],
       [id |-> 3, title |-> 4, status |-> 2, note |-> 0],
       [id |-> 4, title |-> 2, status |-> 1, note |-> 2],
       [id |-> 5, title |-> 5, status |-> 2, note |-> 1] >>
\* The document of a row: the identity is kept under _id.
ToDocument(row) ==
    [ x \in ((DOMAIN row) \ {"id"}) \cup {"_id"} |-> IF x = "_id" THEN row["id"] ELSE row[x] ]
MongoCollection == [ i \in 1..Len(SelTable) |-> ToDocument(SelTable[i]) ]
\* mongoService.mapDocument: the identity goes back under id.
mapDocument(doc) ==
    [ x \in ((DOMAIN doc) \ {"_id"}) \cup {"id"} |-> IF x = "id" THEN doc["_id"] ELSE doc[x] ]
\* results.map(doc => mapDocument(doc))
MapDocuments(q) == [ i \in 1..Len(q) |-> mapDocument(q[i]) ]

NoRow == [x \in {} |-> 0]
RemoveAt(q, i) == SubSeq(q, 1, i - 1) \o SubSeq(q, i + 1, Len(q))

\* if (x): undefined and 0 are falsy.
Truthy(x) == x # Absent /\ x # 0

\* ---- the options both executors convert
\* sort: a leading '-' asks for descending order.
ParseSort(sortText) ==
    IF Head(sortText) = "-"
    THEN [field |-> Tail(sortText), direction |-> "desc"]
    ELSE [field |-> sortText, direction |-> "asc"]
\* page and limit: offset and limit of the query (Absent when not set).
QueryOffset(page, limit) ==
    IF Truthy(page) /\ Truthy(limit) THEN (page - 1) * limit ELSE Absent
QueryLimit(page, limit) ==
    IF Truthy(page) /\ Truthy(limit) THEN limit
    ELSE IF Truthy(limit) THEN limit
    ELSE Absent
\* field.includes('.') ? field : `${table}.${field}`
Qualified(table, field) == IF Len(field) > 1 THEN field ELSE <<table>> \o field
\* field.split('.').pop()
LastSegment(field) == field[Len(field)]

\* query.offset(n) / cursor.skip(n), applied under if (offset)
ApplyOffset(q, offset) ==
    IF Truthy(offset) THEN SubSeq(q, offset + 1, Len(q)) ELSE q
\* A limit that falls back to one row when the query names none.
ApplyLimitDefault(q, limit) ==
    LET n == IF limit # Absent /\ limit > 0 THEN limit ELSE 1
    IN SubSeq(q, 1, IF n < Len(q) THEN n ELSE Len(q))
\* query.limit(n) / cursor.limit(n), applied under
\* limit !== undefined && limit !== null && limit > 0
ApplyLimit(q, limit) ==
    IF limit # Absent /\ limit > 0
    THEN SubSeq(q, 1, IF limit < Len(q) THEN limit ELSE Len(q))
    ELSE q

\* Rows ordered by the value under `key`, ties in the order they came.
RECURSIVE OrderBy(_, _, _)
OrderBy(q, key, direction) ==
    IF q = <<>> THEN <<>>
    ELSE LET first == CHOOSE i \in 1..Len(q) : \A j \in 1..Len(q) :
                         \/ (direction = "asc" /\ q[i][key] < q[j][key])
                         \/ (direction = "desc" /\ q[i][key] > q[j][key])
                         \/ (q[i][key] = q[j][key] /\ i <= j)
         IN <<q[first]>> \o OrderBy(RemoveAt(q, first), key, direction)

\* ---- filters
\* The order Object.entries lists the keys of a filter object in.
KeyOrder == << "id", "title", "status" >>
RECURSIVE EntriesFrom(_, _)
EntriesFrom(obj, i) ==
    IF i > Len(KeyOrder) THEN <<>>
    ELSE IF KeyOrder[i] \in DOMAIN obj
         THEN << [field |-> <<KeyOrder[i]>>, operator |-> "=", value |-> obj[KeyOrder[i]]] >>
              \o EntriesFrom(obj, i + 1)
         ELSE EntriesFrom(obj, i + 1)
\* options.filter -> queryOptions.where: one '=' condition per key.
FilterToWhere(filter) == EntriesFrom(filter, 1)
\* Auto-prefix of the table name to the conditions' fields.
PrefixWhere(table, where) ==
    [ i \in 1..Len(where) |-> [ where[i] EXCEPT !.field = Qualified(table, @) ] ]

\* A column without a value: SQL NULL, null in a document.
NullValue == 0
\* The operators applyWhereToKnex and whereToMongoFilter have a case for.
KnownOperators ==
    { "=", "!=", ">", "<", ">=", "<=", "like", "in", "not in", "is null", "is not null" }
InList(v, list) == \E i \in 1..Len(list) : list[i] = v

\* What one condition asks of a column value in SQL; a comparison with NULL
\* is not true.  A pattern is a text without wildcard, matched by itself.  An
\* operator without a case in the switch adds nothing to the query.
SqlHolds(v, c) ==
    CASE c.operator = "=" -> v # NullValue /\ v = c.value
      [] c.operator = "!=" -> v # NullValue /\ v # c.value
      [] c.operator = ">" -> v # NullValue /\ v > c.value
      [] c.operator = "<" -> v # NullValue /\ v < c.value
      [] c.operator = ">=" -> v # NullValue /\ v >= c.value
      [] c.operator = "<=" -> v # NullValue /\ v <= c.value
      [] c.operator = "like" -> v # NullValue /\ v = c.value
      [] c.operator = "in" -> v # NullValue /\ InList(v, c.value)
      [] c.operator = "not in" -> v # NullValue /\ ~InList(v, c.value)
      [] c.operator = "is null" -> v = NullValue
      [] c.operator = "is not null" -> v # NullValue
      [] OTHER -> TRUE

\* applyWhereToKnex: one query.where / whereIn / whereNotIn / whereNull /
\* whereNotNull per condition; the rows of the query are those that satisfy
\* every one of them.
applyWhereToKnex(q, conditions) ==
    LET Holds(row) == \A i \in 1..Len(conditions) :
                         SqlHolds(row[LastSegment(conditions[i].field)], conditions[i])
        keep == { i \in 1..Len(q) : Holds(q[i]) }
        RECURSIVE Pick(_)
        Pick(i) == IF i > Len(q) THEN <<>>
                   ELSE IF i \in keep THEN <<q[i]>> \o Pick(i + 1) ELSE Pick(i + 1)
    IN Pick(1)

\* The value whereToMongoFilter stores under the field name for a condition.
MongoPredicate(c) ==
    CASE c.operator = "=" -> [p |-> "$eq", v |-> c.value]
      [] c.operator = "!=" -> [p |-> "$ne", v |-> c.value]
      [] c.operator = ">" -> [p |-> "$gt", v |-> c.value]
      [] c.operator = "<" -> [p |-> "$lt", v |-> c.value]
      [] c.operator = ">=" -> [p |-> "$gte", v |-> c.value]
      [] c.operator = "<=" -> [p |-> "$lte", v |-> c.value]
      [] c.operator = "like" -> [p |-> "$regex", v |-> c.value]
      [] c.operator = "in" -> [p |-> "$in", v |-> c.value]
      [] c.operator = "not in" -> [p |-> "$nin", v |-> c.value]
      [] c.operator = "is null" -> [p |-> "$eq", v |-> NullValue]
      [] c.operator = "is not null" -> [p |-> "$ne", v |-> NullValue]

\* whereToMongoFilter: filter[fieldName] = ... for each condition in turn,
\* fieldName the last segment of the field, 'id' turned into '_id'; the switch
\* has no default, so any other operator leaves the filter as it is.
RECURSIVE MongoFilterFrom(_, _)
MongoFilterFrom(conditions, filter) ==
    IF conditions = <<>> THEN filter
    ELSE LET c == Head(conditions)
             name == IF LastSegment(c.field) = "id" THEN "_id" ELSE LastSegment(c.field)
         IN MongoFilterFrom(Tail(conditions),
               IF c.operator \in KnownOperators
               THEN [ x \in (DOMAIN filter) \cup {name} |->
                        IF x = name THEN MongoPredicate(c) ELSE filter[x] ]
               ELSE filter)
whereToMongoFilter(conditions) == MongoFilterFrom(conditions, NoRow)

\* What a stored predicate asks of a document's value (null when the document
\* has no such field): $ne and $nin hold of a null, the comparisons do not.
MongoHolds(v, pred) ==
    CASE pred.p = "$eq" -> v = pred.v
      [] pred.p = "$ne" -> v # pred.v
      [] pred.p = "$gt" -> v # NullValue /\ v > pred.v
      [] pred.p = "$lt" -> v # NullValue /\ v < pred.v
      [] pred.p = "$gte" -> v # NullValue /\ v >= pred.v
      [] pred.p = "$lte" -> v # NullValue /\ v <= pred.v
      [] pred.p = "$regex" -> v # NullValue /\ v = pred.v
      [] pred.p = "$in" -> InList(v, pred.v)
      [] pred.p = "$nin" -> ~InList(v, pred.v)

\* collection.find(filter) / { $match: filter }: the documents that satisfy
\* the predicate under each key of the filter, in stored order.
MongoFind(docs, filter) ==
    LET Holds(doc) == \A k \in DOMAIN filter :
                         MongoHolds(IF k \in DOMAIN doc THEN doc[k] ELSE NullValue, filter[k])
        RECURSIVE Pick(_)
        Pick(i) == IF i > Len(docs) THEN <<>>
                   ELSE IF Holds(docs[i]) THEN <<docs[i]>> \o Pick(i + 1) ELSE Pick(i + 1)
    IN Pick(1)

\* buildWhereClause(query, filter, table, dbType) of utils/build-where-clause,
\* for a filter of equality conditions on root columns: the rows that satisfy
\* every condition.
buildWhereClause(q, filter) == applyWhereToKnex(q, FilterToWhere(filter))

\* cursor.sort({[path]: 1 | -1}) / { $sort }: a path no document holds a value
\* under orders nothing.
MongoSort(docs, path, direction) ==
    IF docs # <<>> /\ Len(path) = 1 /\ path[1] \in DOMAIN docs[1]
    THEN OrderBy(docs, path[1], direction)
    ELSE docs

\* ---- the two executors
SelTableName == "article"
\* meta: 'a,b'.split(',') trimmed, empty parts dropped; here the set of parts.
NeedsTotalCount(metaParts) == "totalCount" \in metaParts \/ "*" \in metaParts
NeedsFilterCount(metaParts) == "filterCount" \in metaParts \/ "*" \in metaParts

\* expandFieldsSql for root fields, as its fallback gives it: no join, the
\* fields themselves as the select list.
expandFieldsSql(fields) == [joins |-> <<>>, select |-> fields]
SeqRange(q) == { q[i] : i \in 1..Len(q) }

\* The columns a row of the SQL result holds: the select list when there is
\* one, every column when nothing was selected, and the window count as one
\* more selected column.
SqlRow(row, select, windowCount, count) ==
    LET named == IF select # <<>> THEN SeqRange(select)
                 ELSE IF windowCount THEN {}
                 ELSE DOMAIN row
        cols == IF windowCount THEN named \cup {"__filter_count__"} ELSE named
    IN [ x \in cols |-> IF x = "__filter_count__" THEN count ELSE row[x] ]
\* delete row.__filter_count__
WithoutCount(row) == [ x \in (DOMAIN row) \ {"__filter_count__"} |-> row[x] ]

\* results.length > 0 guards the extraction of the window count.
FilterCountOf(results) ==
    IF Len(results) > 0 THEN results[1]["__filter_count__"] ELSE 0

\* A meta object that always carries both counts.
MetaOfBoth(metaParts, totalCount, filterCount) ==
    [ x \in {"totalCount", "filterCount"} |->
        IF x = "totalCount" THEN totalCount ELSE filterCount ]
\* The meta object of the response.
MetaOf(metaParts, totalCount, filterCount) ==
    [ x \in (IF NeedsTotalCount(metaParts) THEN {"totalCount"} ELSE {})
            \cup (IF NeedsFilterCount(metaParts) THEN {"filterCount"} ELSE {}) |->
        IF x = "totalCount" THEN totalCount ELSE filterCount ]

sqlExecutor(o) ==
    LET sort == IF o.sort # <<>> THEN << ParseSort(o.sort) >> ELSE <<>>
        offset == QueryOffset(o.page, o.limit)
        limit == QueryLimit(o.page, o.limit)
        mainTableSorts ==
            [ i \in 1..Len(sort) |-> [ sort[i] EXCEPT !.field = Qualified(SelTableName, @) ] ]
        select == IF o.fields # <<>> THEN expandFieldsSql(o.fields).select ELSE <<>>
        needsFilterCount == NeedsFilterCount(o.meta)
        needsTotalCount == NeedsTotalCount(o.meta)
        filtered == IF DOMAIN o.filter # {} THEN buildWhereClause(SelTable, o.filter)
                    ELSE SelTable
        ordered == IF Len(mainTableSorts) > 0
                   THEN OrderBy(filtered, LastSegment(mainTableSorts[1].field),
                                mainTableSorts[1].direction)
                   ELSE filtered
        paged == ApplyLimit(ApplyOffset(ordered, offset), limit)
        results == [ i \in 1..Len(paged) |->
                       SqlRow(paged[i], select, needsFilterCount, Len(filtered)) ]
        totalCount == IF needsTotalCount THEN Len(SelTable) ELSE 0
        filterCount == IF needsFilterCount THEN FilterCountOf(results) ELSE 0
        data == IF needsFilterCount /\ Len(results) > 0
                THEN [ i \in 1..Len(results) |-> WithoutCount(results[i]) ] ELSE results
    IN [ data |-> data,
         hasMeta |-> o.meta # {},
         meta |-> IF o.meta # {} THEN MetaOf(o.meta, totalCount, filterCount) ELSE NoRow,
         countQuery |-> needsTotalCount,
         windowCount |-> needsFilterCount,
         offset |-> offset,
         limit |-> limit ]

\* The sort key of the simple find path: the field as selectLegacy left it.
SimpleSortKey(field) == field
\* The sort key of the aggregation path: last segment, 'id' as '_id'.
PipelineSortKey(field) ==
    IF LastSegment(field) = "id" THEN << "_id" >> ELSE << LastSegment(field) >>

selectLegacy(q) ==
    LET where == PrefixWhere(q.table, q.where)
        sort == [ i \in 1..Len(q.sort) |-> [ q.sort[i] EXCEPT !.field = Qualified(q.table, @) ] ]
        filter == IF q.hasWhere THEN whereToMongoFilter(where) ELSE NoRow
        matched == MongoFind(MongoCollection, filter)
        SortKey(field) == IF q.fields # <<>> THEN PipelineSortKey(field)
                          ELSE SimpleSortKey(field)
        sorted == IF Len(sort) > 0
                  THEN MongoSort(matched, SortKey(sort[1].field), sort[1].direction)
                  ELSE matched
        paged == ApplyLimit(ApplyOffset(sorted, q.offset), q.limit)
    IN MapDocuments(paged)

\* mongoExecutor once the filter is converted: the remaining conversions,
\* selectLegacy, and the response.
MongoResponse(o, hasWhere, where) ==
    LET q == [ table |-> SelTableName,
               fields |-> o.fields,
               hasWhere |-> hasWhere,
               where |-> where,
               sort |-> IF o.sort # <<>> THEN << ParseSort(o.sort) >> ELSE <<>>,
               offset |-> QueryOffset(o.page, o.limit),
               limit |-> QueryLimit(o.page, o.limit) ]
    IN [ data |-> selectLegacy(q),
         hasMeta |-> FALSE,
         meta |-> NoRow,
         countQuery |-> FALSE,
         windowCount |-> FALSE,
         offset |-> q.offset,
         limit |-> q.limit ]
mongoExecutor(o) == MongoResponse(o, o.filter # NoRow, FilterToWhere(o.filter))

\* select: the backend's executor.
select(o) == IF o.dbType # "mongodb" THEN sqlExecutor(o) ELSE mongoExecutor(o)

\* ---- the requests
SelFilters ==
    { NoRow, [status |-> 1], [status |-> 2], [title |-> 9], [status |-> 1, title |-> 2] }
SelSorts == { <<>>, <<"title">>, <<"-", "title">>, <<"id">>, <<"-", "id">> }
SelFields == { <<>>, <<"id", "title">> }
SelMetas == { {}, {"totalCount"}, {"filterCount"}, {"totalCount", "filterCount"}, {"*"} }
SelRequests ==
    [ dbType : {"mysql", "mongodb"}, fields : SelFields, filter : SelFilters,
      sort : SelSorts, page : {Absent} \cup (1..MaxPage),
      limit : {Absent} \cup (0..MaxLimit), meta : SelMetas ]

InitSel ==
    /\ InitBackend /\ FkOff /\ WhereOff /\ MoreOff
    /\ selReq \in SelRequests
    /\ selOut = EmptyRec
    /\ selPc = "ready"

SelApply ==
    /\ selPc = "ready"
    /\ selOut' = select(selReq)
    /\ selPc' = "done"
    /\ UNCHANGED << hooks, regOps, cascadeContextMap, rows, junction, nextId, calls,
                    FkFrame, selReq, WhereFrame, MoreFrames >>

NextSel == SelApply
SpecSel == InitSel /\ [][NextSel]_vars

\* ---- a where list on both backends
\* Largest number of conditions in a where list.
MaxWhere == 2
WhereFields == { <<"id">>, <<"title">>, <<"status">>, <<"article", "status">> }
WhereValues == {1, 2}
WhereConditions == [ field : WhereFields, operator : {"="}, value : WhereValues ]
WhereLists == UNION { [ 1..n -> WhereConditions ] : n \in 0..MaxWhere }
IdsOf(q) == { q[i]["id"] : i \in 1..Len(q) }

InitWhere ==
    /\ InitBackend /\ FkOff /\ SelOff /\ MoreOff
    /\ whIn \in WhereLists
    /\ whOut = EmptyRec
    /\ whPc = "ready"

\* The rows a where list selects (count, delete, update): applyWhereToKnex on
\* the table, whereToMongoFilter and find on the mirrored collection.
WhereApply ==
    /\ whPc = "ready"
    /\ whOut' = [ sql |-> IdsOf(IF Len(whIn) > 0 THEN applyWhereToKnex(SelTable, whIn)
                                ELSE SelTable),
                  mongo |-> IdsOf(MapDocuments(MongoFind(MongoCollection, whereToMongoFilter(whIn)))) ]
    /\ whPc' = "done"
    /\ UNCHANGED << hooks, regOps, cascadeContextMap, rows, junction, nextId, calls,
                    FkFrame, SelFrame, whIn, MoreFrames >>

NextWhere == WhereApply
SpecWhere == InitWhere /\ [][NextWhere]_vars


\* ---- a request filter on the document backend
\* A filter object is the sequence of its entries, in the order Object.entries
\* lists them.  An entry holds a bare value, or an object whose own entries are
\* pairs of a name and an operand (when the operand is itself an object with
\* one entry, sub is that entry's name), or, under a logical key, child
\* filters.
\* Largest operand of a condition in a request.
MaxOperand == 3
Pair(op, val) == [op |-> op, sub |-> "", val |-> val]
Bare(key, v) == [key |-> key, kind |-> "value", value |-> v, ops |-> <<>>, children |-> <<>>]
Cond(key, ops) == [key |-> key, kind |-> "object", value |-> 0, ops |-> ops, children |-> <<>>]
Logical(key, children) ==
    [key |-> key, kind |-> "object", value |-> 0, ops |-> <<>>, children |-> children]
\* { [relation]: { [field]: { [sub]: val } } }
Nested(relation, field, sub, val) ==
    Cond(relation, << [op |-> field, sub |-> sub, val |-> val] >>)

\* The tags each article is joined to (the many-to-many relation tags of the
\* metadata), by article id.
SelTags == << {1, 3}, {}, {3}, {2}, {} >>

ScalarKeys == { "_eq", "_neq", "_gt", "_gte", "_lt", "_lte", "_contains" }
MembershipKeys == { "_in", "_not_in" }
NullKeys == { "_is_null", "_is_not_null" }
UnknownKeys == { "_between", "_starts_with" }
LogicalKeys == { "_and", "_or", "_not" }
FilterColumns == { "title", "note" }
Operands == 1..MaxOperand
OperandLists == { <<1>>, <<1, 2>> }

\* One operator on one column.
OneOperatorFilters ==
    { << Cond(col, << Pair(op, v) >>) >> : col \in FilterColumns, op \in ScalarKeys, v \in Operands }
    \cup { << Cond(col, << Pair(op, l) >>) >> : col \in FilterColumns, op \in MembershipKeys, l \in OperandLists }
    \cup { << Cond(col, << Pair(op, 1) >>) >> : col \in FilterColumns, op \in NullKeys }
\* A range: two operators in one operator object.
RangeFilters ==
    { << Cond("title", << Pair("_gt", lo), Pair("_lt", hi) >>) >> : lo \in Operands, hi \in Operands }
UnknownOperatorFilters ==
    { << Cond(col, << Pair(op, v) >>) >> : col \in FilterColumns, op \in UnknownKeys, v \in Operands }
RelationFilters == { << Nested("tags", "id", "_eq", t) >> : t \in Operands }
LogicalFilters ==
    { << Logical(key, << << Bare("status", 1) >>, << Cond("title", << Pair("_gt", v) >>) >> >>) >> :
        key \in { "_and", "_or" }, v \in Operands }
    \cup { << Logical("_not", << << Bare("status", s) >> >>) >> : s \in {1, 2} }
BareFilters == { << Bare("status", s) >> : s \in {1, 2} } \cup { <<>> }
RequestFilters ==
    OneOperatorFilters \cup RangeFilters \cup UnknownOperatorFilters
    \cup RelationFilters \cup LogicalFilters \cup BareFilters

\* hasLogicalOperators of utils/build-where-clause: the filter has a logical key.
hasLogicalOperators(filter) == \E i \in 1..Len(filter) : filter[i].key \in LogicalKeys

\* op.replace('_', ' '): the first underscore becomes a space.
ReplaceUnderscore(op) ==
    CASE op = "_is_not_null" -> " is_not_null"
      [] op = "_between" -> " between"
      [] op = "_starts_with" -> " starts_with"
      [] OTHER -> op
\* The operator string the executors give a key of an operator object.
ConvertOperator(op) ==
    CASE op = "_eq" -> "="
      [] op = "_neq" -> "!="
      [] op = "_in" -> "in"
      [] op = "_not_in" -> "not in"
      [] op = "_gt" -> ">"
      [] op = "_gte" -> ">="
      [] op = "_lt" -> "<"
      [] op = "_lte" -> "<="
      [] op = "_contains" -> "like"
      [] op = "_is_null" -> "is null"
      [] OTHER -> ReplaceUnderscore(op)
\* The conditions one entry of the filter gives.
ConvertEntry(e) ==
    IF e.kind = "object"
    THEN [ i \in 1..Len(e.ops) |->
             [field |-> <<e.key>>, operator |-> ConvertOperator(e.ops[i].op), value |-> e.ops[i].val] ]
    ELSE << [field |-> <<e.key>>, operator |-> "=", value |-> e.value] >>
\* options.filter -> queryOptions.where.
RECURSIVE ConvertFilter(_)
ConvertFilter(filter) ==
    IF filter = <<>> THEN <<>> ELSE ConvertEntry(Head(filter)) \o ConvertFilter(Tail(filter))

\* mongoExecutor on a request with this filter: no where at all (and a
\* warning) when the filter has a logical key.
mongoExecutorFilter(o) ==
    LET converts == ~hasLogicalOperators(o.filter)
        where == IF converts THEN ConvertFilter(o.filter) ELSE <<>>
        response == MongoResponse([fields |-> o.fields, sort |-> <<>>, page |-> Absent,
                                   limit |-> Absent], converts, where)
    IN [ where |-> where,
         hasWhere |-> converts,
         warned |-> ~converts,
         threw |-> FALSE,
         data |-> response.data ]

FilterRequests == [ filter : RequestFilters, fields : SelFields ]

InitFilter ==
    /\ InitBackend /\ FkOff /\ SelOff /\ WhereOff /\ IdOff /\ ExpandOff /\ DeleteOff /\ TxOff
    /\ LateOff
    /\ flReq \in FilterRequests
    /\ flOut = EmptyRec
    /\ flPc = "ready"

FilterApply ==
    /\ flPc = "ready"
    /\ flOut' = mongoExecutorFilter(flReq)
    /\ flPc' = "done"
    /\ UNCHANGED << hooks, regOps, cascadeContextMap, rows, junction, nextId, calls,
                    FkFrame, SelFrame, WhereFrame, flReq, IdFrame, ExpandFrame, DeleteFrame,
                    TxFrame, LateFrames >>

NextFilter == FilterApply
SpecFilter == InitFilter /\ [][NextFilter]_vars

\* ---- the identifier rule of the document backend
\* A value a caller gives for an identifier: a number, a string that is the
\* text of an ObjectId (hex), or any other string (text); objectId is the
\* native identity made from a hex string.
IdNumber(n) == [t |-> "number", n |-> n]
IdHex(n) == [t |-> "hex", n |-> n]
IdText(n) == [t |-> "text", n |-> n]
IdValues == { IdNumber(1), IdHex(1), IdText(1) }
IsString(v) == v.t \in { "hex", "text" }
\* new ObjectId(v) of a string: throws unless the string is the text of one.
ObjectIdThrows(v) == v.t = "text"
ObjectIdOf(v) == [t |-> "objectId", n |-> v.n]

\* whereToMongoFilter, one condition.  The operand of a condition is the
\* sequence of its values: one value, or the array of in / not in.
MongoFieldName(field) ==
    IF LastSegment(field) = "id" THEN "_id" ELSE LastSegment(field)
\* try { value = new ObjectId(value) } catch { console.error }
CoerceValue(fieldName, value) ==
    IF fieldName = "_id" /\ IsString(value) /\ ~ObjectIdThrows(value)
    THEN ObjectIdOf(value) ELSE value
\* (value as any[]).map(v => typeof v === 'string' ? new ObjectId(v) : v)
CoerceListThrows(fieldName, list) ==
    fieldName = "_id" /\ \E i \in 1..Len(list) : IsString(list[i]) /\ ObjectIdThrows(list[i])
CoerceList(fieldName, list) ==
    [ i \in 1..Len(list) |->
        IF fieldName = "_id" /\ IsString(list[i]) THEN ObjectIdOf(list[i]) ELSE list[i] ]
whereToMongoCondition(c) ==
    LET name == MongoFieldName(c.field)
    IN IF c.operator \in { "in", "not in" }
       THEN IF CoerceListThrows(name, c.values)
            THEN [threw |-> TRUE, name |-> name, values |-> c.values]
            ELSE [threw |-> FALSE, name |-> name, values |-> CoerceList(name, c.values)]
       ELSE [threw |-> FALSE, name |-> name, values |-> << CoerceValue(name, c.values[1]) >>]

\* findOneWhere / findWhere, one key of the where object.
findOneWhere(c) ==
    LET key == LastSegment(c.field)
        value == c.values[1]
    IN IF key = "id" \/ key = "_id"
       THEN IF IsString(value)
            THEN IF ObjectIdThrows(value)
                 THEN [threw |-> TRUE, name |-> "_id", values |-> c.values]
                 ELSE [threw |-> FALSE, name |-> "_id", values |-> << ObjectIdOf(value) >>]
            ELSE [threw |-> FALSE, name |-> "_id", values |-> c.values]
       ELSE [threw |-> FALSE, name |-> key, values |-> c.values]

\* convertValueByType for a field without column type: the value of '_id' is
\* coerced under try / catch, any other returned as it is.
convertValueByType(c) ==
    LET field == LastSegment(c.field)
        value == c.values[1]
    IN [ threw |-> FALSE, name |-> field,
         values |-> << IF field = "_id" /\ IsString(value) /\ ~ObjectIdThrows(value)
                      THEN ObjectIdOf(value) ELSE value >> ]

IdFields == { <<"id">>, <<"_id">>, <<"title">>, <<"article", "id">> }
IdLists == { << v >> : v \in IdValues } \cup { << v, w >> : v \in IdValues, w \in IdValues }
IdRequests ==
    { [via |-> "where", field |-> f, operator |-> op, values |-> << v >>] :
         f \in IdFields, op \in { "=", "!=" }, v \in IdValues }
    \cup { [via |-> "where", field |-> f, operator |-> op, values |-> l] :
         f \in IdFields, op \in { "in", "not in" }, l \in IdLists }
    \cup { [via |-> "findOneWhere", field |-> f, operator |-> "=", values |-> << v >>] :
         f \in { <<"id">>, <<"_id">>, <<"title">> }, v \in IdValues }
    \cup { [via |-> "convert", field |-> f, operator |-> "=", values |-> << v >>] :
         f \in { <<"_id">>, <<"title">> }, v \in IdValues }

InitId ==
    /\ InitBackend /\ FkOff /\ SelOff /\ WhereOff /\ FilterOff /\ ExpandOff /\ DeleteOff /\ TxOff
    /\ LateOff
    /\ idReq \in IdRequests
    /\ idOut = EmptyRec
    /\ idPc = "ready"

IdApply ==
    /\ idPc = "ready"
    /\ idOut' = CASE idReq.via = "where" -> whereToMongoCondition(idReq)
                  [] idReq.via = "findOneWhere" -> findOneWhere(idReq)
                  [] idReq.via = "convert" -> convertValueByType(idReq)
    /\ idPc' = "done"
    /\ UNCHANGED << hooks, regOps, cascadeContextMap, rows, junction, nextId, calls,
                    FkFrame, SelFrame, WhereFrame, FilterFrame, idReq, ExpandFrame,
                    DeleteFrame, TxFrame, LateFrames >>

NextIdRule == IdApply
SpecId == InitId /\ [][NextIdRule]_vars

\* ---- field expansion on the document backend
\* A requested field is a path: the sequence of the segments between its dots.
MaxFields == 3
Star == << "*" >>
\* fieldsByRelation: a Map in insertion order, the root fields under key "".
MapHas(m, key) == \E i \in 1..Len(m) : m[i].key = key
MapPush(m, key, path) ==
    IF MapHas(m, key)
    THEN [ i \in 1..Len(m) |->
             IF m[i].key = key THEN [m[i] EXCEPT !.paths = Append(@, path)] ELSE m[i] ]
    ELSE Append(m, [key |-> key, paths |-> << path >>])
MapGet(m, key) ==
    IF MapHas(m, key) THEN m[CHOOSE i \in 1..Len(m) : m[i].key = key].paths ELSE <<>>

\* Group fields by relation: '*' and a field without dot go to the root, a
\* dotted field to its first segment with the remaining path.
RECURSIVE GroupFields(_, _)
GroupFields(fields, m) ==
    IF fields = <<>> THEN m
    ELSE LET field == Head(fields)
         IN GroupFields(Tail(fields),
                        IF Len(field) = 1 THEN MapPush(m, "", field)
                        ELSE MapPush(m, field[1], Tail(field)))

\* scalarFields.push(x) without its includes() test.
PushAlways(list, x) == Append(list, x)
\* if (!scalarFields.includes(x)) scalarFields.push(x)
PushOnce(list, x) == IF x \in SeqRange(list) THEN list ELSE Append(list, x)

RECURSIVE AddColumns(_, _)
AddColumns(columns, scalarFields) ==
    IF columns = <<>> THEN scalarFields
    ELSE AddColumns(Tail(columns), PushOnce(scalarFields, Head(columns).name))

\* Auto-add all relations with only 'id' field, unless requested already.
RECURSIVE AutoRelations(_, _)
AutoRelations(relations, m) ==
    IF relations = <<>> THEN m
    ELSE AutoRelations(Tail(relations),
                       IF MapHas(m, Head(relations).propertyName) THEN m
                       ELSE MapPush(m, Head(relations).propertyName, << "id" >>))

\* Process root-level fields.
RECURSIVE RootFields(_, _, _)
RootFields(rootFields, baseMeta, acc) ==
    IF rootFields = <<>> THEN acc
    ELSE LET field == Head(rootFields)
         IN RootFields(Tail(rootFields), baseMeta,
               IF field = Star
               THEN [ scalarFields |-> AddColumns(baseMeta.columns, acc.scalarFields),
                      map |-> AutoRelations(baseMeta.relations, acc.map) ]
               ELSE [ acc EXCEPT !.scalarFields = PushOnce(@, field[1]) ])

FindRelation(baseMeta, relationName) ==
    { i \in 1..Len(baseMeta.relations) : baseMeta.relations[i].propertyName = relationName }

\* The relation is not found and the expansion fails.
RelationMissingThrows(acc, relationName) == [acc EXCEPT !.threw = TRUE]
\* console.warn(...); continue
RelationMissing(acc, relationName) == [acc EXCEPT !.warned = @ \cup { relationName }]

\* Process relation fields.
RECURSIVE RelationFields(_, _, _)
RelationFields(entries, baseMeta, acc) ==
    IF entries = <<>> THEN acc
    ELSE LET relationName == Head(entries).key
             found == FindRelation(baseMeta, relationName)
         IN RelationFields(Tail(entries), baseMeta,
               IF relationName = "" THEN acc
               ELSE IF found = {} THEN RelationMissing(acc, relationName)
               ELSE LET rel == baseMeta.relations[CHOOSE i \in found : \A j \in found : i <= j]
                    IN [ acc EXCEPT !.relations = Append(@,
                           [ propertyName |-> relationName,
                             targetTable |-> rel.targetTable,
                             localField |-> relationName,
                             foreignField |-> "_id",
                             type |-> IF rel.type \in { "one-to-many", "many-to-many" }
                                      THEN "many" ELSE "one",
                             nestedFields |-> Head(entries).paths ]) ])

NoExpansion == [scalarFields |-> <<>>, relations |-> <<>>, warned |-> {}, threw |-> FALSE]
expandFieldsMongo(hasCache, tableName, fields) ==
    IF ~hasCache THEN NoExpansion
    ELSE IF tableName \notin TableNames THEN NoExpansion
    ELSE LET baseMeta == LookupTable(tableName)
             grouped == GroupFields(fields, <<>>)
             root == RootFields(MapGet(grouped, ""), baseMeta,
                                [scalarFields |-> <<>>, map |-> grouped])
         IN RelationFields(root.map, baseMeta,
                           [NoExpansion EXCEPT !.scalarFields = root.scalarFields])

FieldPaths ==
    { Star, << "title" >>, << "tags", "name" >>, << "tags", "*" >>,
      << "author", "name" >>, << "bogus", "x" >>, << "title", "x" >> }
FieldLists == UNION { [1..n -> FieldPaths] : n \in 1..MaxFields }
ExpandRequests ==
    [ hasCache : BOOLEAN, table : { "article", "draft" }, fields : FieldLists ]

InitExpand ==
    /\ InitBackend /\ FkOff /\ SelOff /\ WhereOff /\ FilterOff /\ IdOff /\ DeleteOff /\ TxOff
    /\ LateOff
    /\ exReq \in ExpandRequests
    /\ exOut = EmptyRec
    /\ exPc = "ready"

ExpandApply ==
    /\ exPc = "ready"
    /\ exOut' = expandFieldsMongo(exReq.hasCache, exReq.table, exReq.fields)
    /\ exPc' = "done"
    /\ UNCHANGED << hooks, regOps, cascadeContextMap, rows, junction, nextId, calls,
                    FkFrame, SelFrame, WhereFrame, FilterFrame, IdFrame, exReq,
                    DeleteFrame, TxFrame, LateFrames >>

NextExpand == ExpandApply
SpecExpand == InitExpand /\ [][NextExpand]_vars

\* ---- delete on both backends
\* The rows of a table that refer to articles by a foreign key column
\* (NullValue: no article), and the rows of the junction table article_tags.
DelComments ==
    << [id |-> 1, articleId |-> 1], [id |-> 2, articleId |-> 2],
       [id |-> 3, articleId |-> 2], [id |-> 4, articleId |-> NullValue] >>
DelJunction == { p \in (1..Len(SelTags)) \X (1..MaxOperand) : p[2] \in SelTags[p[1]] }
DelTables == [article |-> SelTable, comment |-> DelComments, article_tags |-> DelJunction]

\* The rows of q that are not among the matched ones.
RowsWithout(q, matched) == SelectSeq(q, LAMBDA row : row["id"] \notin IdsOf(matched))

\* delete(options): collection.deleteMany(whereToMongoFilter(where)) on the
\* document backend; on SQL the where list is applied when it has conditions,
\* and query.delete() removes the rows of the query.
delete(dbType, tables, where) ==
    LET matched == IF dbType = "mongodb"
                   THEN MapDocuments(MongoFind(MongoCollection, whereToMongoFilter(where)))
                   ELSE IF Len(where) > 0 THEN applyWhereToKnex(tables.article, where)
                   ELSE tables.article
    IN [ tables |-> [tables EXCEPT !.article = RowsWithout(@, matched)],
         deleted |-> Len(matched) ]

\* mongoService.deleteOne(table, id): the document with that identity.
deleteOne(docs, id) == SelectSeq(docs, LAMBDA doc : doc["_id"] = id)
\* deleteById(table, id): deleteOne on the document backend,
\* knex(table).where('id', id).delete() on SQL.
deleteById(dbType, tables, id) ==
    LET matched == IF dbType = "mongodb"
                   THEN MapDocuments(deleteOne(MongoCollection, id))
                   ELSE SelectSeq(tables.article, LAMBDA row : row["id"] = id)
    IN [ tables |-> [tables EXCEPT !.article = RowsWithout(@, matched)],
         deleted |-> Len(matched) ]

DeleteConditions ==
    [ field : { <<"id">>, <<"title">> }, operator : { "=", ">", "<" }, value : 1..MaxOperand ]
DeleteWheres == UNION { [ 1..n -> DeleteConditions ] : n \in 0..MaxWhere }
DeleteRows ==
    { [dbType |-> d, via |-> "delete", where |-> w, id |-> 0] :
         d \in { "mysql", "mongodb" }, w \in DeleteWheres }
    \cup { [dbType |-> d, via |-> "deleteById", where |-> <<>>, id |-> i] :
         d \in { "mysql", "mongodb" }, i \in 1..(Len(SelTable) + 1) }

InitDelete ==
    /\ InitBackend /\ FkOff /\ SelOff /\ WhereOff /\ FilterOff /\ IdOff /\ ExpandOff /\ TxOff
    /\ LateOff
    /\ delReq \in DeleteRows
    /\ delOut = EmptyRec
    /\ delPc = "ready"

DeleteApply ==
    /\ delPc = "ready"
    /\ delOut' = IF delReq.via = "delete"
                 THEN delete(delReq.dbType, DelTables, delReq.where)
                 ELSE deleteById(delReq.dbType, DelTables, delReq.id)
    /\ delPc' = "done"
    /\ UNCHANGED << hooks, regOps, cascadeContextMap, rows, junction, nextId, calls,
                    FkFrame, SelFrame, WhereFrame, FilterFrame, IdFrame, ExpandFrame,
                    delReq, TxFrame, LateFrames >>

NextDelete == DeleteApply
SpecDelete == InitDelete /\ [][NextDelete]_vars

\* ---- transaction(callback)
\* The callback writes one value through the handle it is given and returns
\* it, or fails after writing; the backend's commit and abort may fail.  An
\* error is named after the call that raised it, "" is no error.
TxValues == { 1, 2, 3 }
TxRequests ==
    [ dbType : { "mysql", "mongodb" }, write : TxValues,
      callbackFails : BOOLEAN, commitFails : BOOLEAN, abortFails : BOOLEAN ]
\* store: the writes visible outside; pending: the writes of the open
\* transaction; caught: the error the catch block holds.
TxIdle ==
    [ store |-> {}, pending |-> {}, open |-> FALSE, commits |-> 0, aborts |-> 0,
      ended |-> 0, result |-> 0, caught |-> "", error |-> "" ]
TxRest == << hooks, regOps, cascadeContextMap, rows, junction, nextId, calls,
             FkFrame, SelFrame, WhereFrame, FilterFrame, IdFrame, ExpandFrame,
             DeleteFrame, txReq, LateFrames >>

InitTx ==
    /\ InitBackend /\ FkOff /\ SelOff /\ WhereOff
    /\ FilterOff /\ IdOff /\ ExpandOff /\ DeleteOff /\ LateOff
    /\ txReq \in TxRequests
    /\ txSt = TxIdle
    /\ txPc = "ready"

\* session = startSession(); await session.startTransaction()
TxStart ==
    /\ txPc = "ready" /\ txReq.dbType = "mongodb"
    /\ txSt' = [txSt EXCEPT !.open = TRUE]
    /\ txPc' = "callback"
    /\ UNCHANGED TxRest

\* const result = await callback(session)
TxCallback ==
    /\ txPc = "callback"
    /\ IF txReq.callbackFails
       THEN /\ txSt' = [txSt EXCEPT !.pending = { txReq.write }, !.caught = "callback"]
            /\ txPc' = "catch"
       ELSE /\ txSt' = [txSt EXCEPT !.pending = { txReq.write }, !.result = txReq.write]
            /\ txPc' = "commit"
    /\ UNCHANGED TxRest

\* await session.commitTransaction(); return result
TxCommit ==
    /\ txPc = "commit"
    /\ IF txReq.commitFails
       THEN /\ txSt' = [txSt EXCEPT !.caught = "commit", !.result = 0]
            /\ txPc' = "catch"
       ELSE /\ txSt' = [txSt EXCEPT !.store = @ \cup txSt.pending, !.pending = {},
                                    !.open = FALSE, !.commits = @ + 1]
            /\ txPc' = "finally"
    /\ UNCHANGED TxRest

\* catch (error) { await session.abortTransaction(); throw error }
TxAbort ==
    /\ txPc = "catch"
    /\ IF txReq.abortFails
       THEN txSt' = [txSt EXCEPT !.error = "abort"]
       ELSE txSt' = [txSt EXCEPT !.pending = {}, !.open = FALSE, !.aborts = @ + 1,
                                 !.error = txSt.caught]
    /\ txPc' = "finally"
    /\ UNCHANGED TxRest

\* finally { await session.endSession() }: a session that ends with its
\* transaction open drops what is pending.
TxEnd ==
    /\ txPc = "finally"
    /\ txSt' = [txSt EXCEPT !.pending = {}, !.open = FALSE, !.ended = @ + 1]
    /\ txPc' = "done"
    /\ UNCHANGED TxRest

\* return knex.transaction(callback): the builder commits when the callback
\* resolves and rolls back when it rejects or the commit fails, and rejects
\* with that error.
TxKnex ==
    /\ txPc = "ready" /\ txReq.dbType # "mongodb"
    /\ txSt' = IF txReq.callbackFails
               THEN [txSt EXCEPT !.aborts = @ + 1, !.error = "callback"]
               ELSE IF txReq.commitFails
               THEN [txSt EXCEPT !.aborts = @ + 1, !.error = "commit"]
               ELSE [txSt EXCEPT !.store = @ \cup { txReq.write }, !.commits = @ + 1,
                                 !.result = txReq.write]
    /\ txPc' = "done"
    /\ UNCHANGED TxRest

NextTx == TxStart \/ TxCallback \/ TxCommit \/ TxAbort \/ TxEnd \/ TxKnex
SpecTx == InitTx /\ [][NextTx]_vars

\* ---- relation rows made from the declared relations (createInitMetadata)
\* A name is the sequence of the parts it is made of; <<>> is a name that was
\* not given.  The tables of the snapshot and their ids:
InitTableIds == [article |-> 1, tag |-> 2]
NoName == <<>>
\* getJunctionTableName(source, propertyName, target): a name made of the
\* three, the same for the same three.
getJunctionTableName(sourceTable, propertyName, targetTable) ==
    << sourceTable, propertyName, targetTable >>
\* getForeignKeyColumnName(table)
getForeignKeyColumnName(tableName) == << tableName, "Id" >>
\* a || b of two names
OrElse(a, b) == IF a # NoName THEN a ELSE b

\* The inverse type: many-to-one and one-to-many change places.
InverseType(type) ==
    CASE type = "many-to-one" -> "one-to-many"
      [] type = "one-to-many" -> "many-to-one"
      [] OTHER -> type

\* The inverse relation generated for rel declared on table `name`.
InverseRelation(name, rel) ==
    LET inverseType == InverseType(rel.type)
        isM2M == inverseType = "many-to-many"
    IN [ propertyName |-> rel.inversePropertyName,
         type |-> inverseType,
         targetTable |-> name,
         inversePropertyName |-> rel.propertyName,
         junctionTableName |->
             IF isM2M THEN getJunctionTableName(name, rel.propertyName, rel.targetTable)
             ELSE NoName,
         junctionSourceColumn |->
             IF isM2M THEN getForeignKeyColumnName(rel.targetTable) ELSE NoName,
         junctionTargetColumn |->
             IF isM2M THEN getForeignKeyColumnName(name) ELSE NoName ]

\* First pass: the direct relation and, with inversePropertyName, its inverse
\* on the target table; a relation without property name, target or type, or
\* of a table or to a table the snapshot does not hold, is passed over.
CollectRelations(name, rel) ==
    IF name \notin DOMAIN InitTableIds THEN <<>>
    ELSE IF rel.propertyName = "" \/ rel.targetTable = "" \/ rel.type = "" THEN <<>>
    ELSE IF rel.targetTable \notin DOMAIN InitTableIds THEN <<>>
    ELSE << [tableName |-> name, relation |-> rel, isInverse |-> FALSE] >>
         \o IF rel.inversePropertyName # ""
            THEN << [ tableName |-> rel.targetTable, relation |-> InverseRelation(name, rel),
                      isInverse |-> TRUE ] >>
            ELSE <<>>

\* The row inserted into relation_definition for a collected relation that
\* has no row yet.
RelationInsertData(item) ==
    LET rel == item.relation
        isM2M == rel.type = "many-to-many"
    IN [ propertyName |-> rel.propertyName,
         type |-> rel.type,
         inversePropertyName |-> rel.inversePropertyName,
         sourceTableId |-> InitTableIds[item.tableName],
         targetTableId |-> InitTableIds[rel.targetTable],
         junctionTableName |->
             IF isM2M THEN OrElse(rel.junctionTableName,
                                  getJunctionTableName(item.tableName, rel.propertyName,
                                                       rel.targetTable))
             ELSE NoName,
         junctionSourceColumn |->
             IF isM2M THEN OrElse(rel.junctionSourceColumn,
                                  getForeignKeyColumnName(item.tableName))
             ELSE NoName,
         junctionTargetColumn |->
             IF isM2M THEN OrElse(rel.junctionTargetColumn,
                                  getForeignKeyColumnName(rel.targetTable))
             ELSE NoName,
         isInverse |-> item.isInverse ]

RelationTypes == { "many-to-one", "one-to-many", "many-to-many", "one-to-one" }
\* The junction names a relation declares: none, the table, or all three.
DeclaredJunctions ==
    { [table |-> NoName, source |-> NoName, target |-> NoName],
      [table |-> << "article_tags" >>, source |-> NoName, target |-> NoName],
      [table |-> << "article_tags" >>, source |-> << "articleId" >>, target |-> << "tagId" >>] }
DeclaredRelations ==
    { [ table |-> t,
        relation |-> [ propertyName |-> "items", type |-> ty, targetTable |-> tt,
                       inversePropertyName |-> inv,
                       junctionTableName |-> j.table,
                       junctionSourceColumn |-> j.source,
                       junctionTargetColumn |-> j.target ] ] :
        t \in { "article", "tag" }, tt \in { "article", "tag", "ghost" },
        ty \in RelationTypes, inv \in { "", "owners" }, j \in DeclaredJunctions }

InitInverse ==
    /\ InitBackend /\ FkOff /\ SelOff /\ WhereOff
    /\ FilterOff /\ IdOff /\ ExpandOff /\ DeleteOff /\ TxOff /\ ThenOff
    /\ ivReq \in DeclaredRelations
    /\ ivOut = <<>>
    /\ ivPc = "ready"

\* createInitMetadata on an empty relation_definition: collect, then insert.
InverseApply ==
    /\ ivPc = "ready"
    /\ ivOut' = LET items == CollectRelations(ivReq.table, ivReq.relation)
                IN [ i \in 1..Len(items) |-> RelationInsertData(items[i]) ]
    /\ ivPc' = "done"
    /\ UNCHANGED << hooks, regOps, cascadeContextMap, rows, junction, nextId, calls,
                    FkFrame, SelFrame, WhereFrame, FilterFrame, IdFrame, ExpandFrame,
                    DeleteFrame, TxFrame, ivReq, ThenFrame >>

NextInverse == InverseApply
SpecInverse == InitInverse /\ [][NextInverse]_vars

\* ---- qb.then: the select hooks around an awaited query
\* Largest number of beforeSelect handlers.
MaxHooks == 3
\* A beforeSelect handler resolves ("pass") or rejects ("throw").
SelectChains == UNION { [ 1..n -> { "pass", "throw" } ] : n \in 0..MaxHooks }
ThenRequests == [ beforeSelect : SelectChains, queryFails : BOOLEAN ]
\* before: the run of beforeSelect (invoked: handlers called so far, returned:
\* handlers that have resolved); query: the original then; after: the run of
\* afterSelect; outcome and error: what the caller's promise settles with;
\* unhandled: a rejection nobody awaits.
ThenIdle ==
    [ before |-> "none", invoked |-> 0, returned |-> 0, query |-> "none",
      after |-> "none", outcome |-> "", error |-> "", unhandled |-> FALSE ]
ThenRest == << hooks, regOps, cascadeContextMap, rows, junction, nextId, calls,
               FkFrame, SelFrame, WhereFrame, FilterFrame, IdFrame, ExpandFrame,
               DeleteFrame, TxFrame, InverseFrame, thReq >>

InitThen ==
    /\ InitBackend /\ FkOff /\ SelOff /\ WhereOff
    /\ FilterOff /\ IdOff /\ ExpandOff /\ DeleteOff /\ TxOff /\ InverseOff
    /\ thReq \in ThenRequests
    /\ thSt = ThenIdle
    /\ thPc = "ready"

\* self.runHooks('beforeSelect', this, tableName) is called and not awaited:
\* the loop calls its first handler and is suspended at the await;
\* originalThen.call(this, ...) then issues the query.
ThenStart ==
    /\ thPc = "ready"
    /\ thSt' = [ thSt EXCEPT
                   !.before = IF Len(thReq.beforeSelect) = 0 THEN "finished" ELSE "running",
                   !.invoked = IF Len(thReq.beforeSelect) = 0 THEN 0 ELSE 1,
                   !.query = "issued" ]
    /\ thPc' = "pending"
    /\ UNCHANGED ThenRest

\* The handler the beforeSelect run is suspended in resolves: the loop calls
\* the next one, or the run is finished.
BeforeSelectReturn ==
    /\ thSt.before = "running"
    /\ thReq.beforeSelect[thSt.invoked] = "pass"
    /\ thSt' = [ thSt EXCEPT
                   !.returned = @ + 1,
                   !.invoked = IF thSt.invoked < Len(thReq.beforeSelect) THEN @ + 1 ELSE @,
                   !.before = IF thSt.invoked < Len(thReq.beforeSelect)
                              THEN "running" ELSE "finished" ]
    /\ UNCHANGED << ThenRest, thPc >>

\* The handler rejects: the promise of the run rejects, and no one holds it.
BeforeSelectThrow ==
    /\ thSt.before = "running"
    /\ thReq.beforeSelect[thSt.invoked] = "throw"
    /\ thSt' = [ thSt EXCEPT !.before = "rejected", !.unhandled = TRUE ]
    /\ UNCHANGED << ThenRest, thPc >>

\* The query resolves and the callback given to originalThen starts
\* runHooks('afterSelect', tableName, result).
QueryResolve ==
    /\ thPc = "pending" /\ thSt.query = "issued" /\ ~thReq.queryFails
    /\ thSt' = [ thSt EXCEPT !.query = "resolved", !.after = "running" ]
    /\ UNCHANGED << ThenRest, thPc >>

\* The query rejects: onRejected gets the error.
QueryReject ==
    /\ thPc = "pending" /\ thSt.query = "issued" /\ thReq.queryFails
    /\ thSt' = [ thSt EXCEPT !.query = "rejected", !.outcome = "rejected",
                             !.error = "query" ]
    /\ thPc' = "done"
    /\ UNCHANGED ThenRest

\* await runHooks('afterSelect', ...) returns and onFulfilled gets the result.
AfterSelectDone ==
    /\ thPc = "pending" /\ thSt.after = "running"
    /\ thSt' = [ thSt EXCEPT !.after = "finished", !.outcome = "fulfilled" ]
    /\ thPc' = "done"
    /\ UNCHANGED ThenRest

NextThen ==
    \/ ThenStart \/ BeforeSelectReturn \/ BeforeSelectThrow
    \/ QueryResolve \/ QueryReject \/ AfterSelectDone
SpecThen == InitThen /\ [][NextThen]_vars

\* ================================================================ claims
RunOf(c, i) == calls[c].runs[i]
IsRun(c, i) == i <= Len(calls[c].runs)
Handlers(run) == [ k \in 1..Len(run.invoked) |-> run.invoked[k].h ]
Issued(f, s) == \E i \in 1..Len(f.trace) : f.trace[i].s = s

\* ---- C1
\* C1: runHooks calls the handlers of the event in registration order, one at a
\* time: the loop has taken at most one handler more than have returned;
\* handler k gets the value handler k-1 returned (the caller's last argument
\* for the first); the run returns the last handler's value (its input when
\* the chain is empty); and a run whose chain nobody changed meanwhile has
\* called exactly the registered handlers, in order.
C1_RunHooksInOrder ==
    \A c \in Calls : \A i \in 1..2 : IsRun(c, i) =>
       LET run == RunOf(c, i)
           n == Len(run.invoked)
       IN /\ \A k \in 1..n :
                run.invoked[k].in = IF k = 1 THEN run.input ELSE run.invoked[k - 1].out
          /\ run.finished =>
                run.result = IF n = 0 THEN run.input ELSE run.invoked[n].out
          /\ ~run.touched => /\ n <= Len(run.chain0)
                             /\ Handlers(run) = SubSeq(run.chain0, 1, n)
          /\ run.finished /\ ~run.touched => Handlers(run) = run.chain0
          /\ i = Len(calls[c].runs) /\ calls[c].pc = "handler" => calls[c].idx = n + 1
          /\ i = Len(calls[c].runs) /\ calls[c].pc = "chain" /\ calls[c].err = ""
                => calls[c].idx = n

\* A run over a chain holding a caller's handlers besides the default ones
\* finished, and its result differs from its input.
C1_Witness ==
    \E c \in Calls :
       /\ IsRun(c, 1) /\ RunOf(c, 1).finished /\ ~RunOf(c, 1).touched
       /\ Len(RunOf(c, 1).invoked) >= 5
       /\ \E k \in 1..Len(RunOf(c, 1).invoked) : RunOf(c, 1).invoked[k].h = "custCopy"
       /\ RunOf(c, 1).result # RunOf(c, 1).input

\* ---- C2
ThrewInBefore(f) == f.err # "" /\ f.errIn # "" /\ f.errAt \in BeforeEvents

\* C2: when a handler of a before-chain throws, no later handler of the chain
\* runs, the insert / update / delete statement is never issued, the
\* after-chain does not run, and the call is rejected with the error.
C2_BeforeHookThrowAborts ==
    \A c \in Calls : ThrewInBefore(calls[c]) =>
       /\ calls[c].pc = "failed"
       /\ Len(calls[c].runs) = 1
       /\ ~RunOf(c, 1).finished
       /\ Len(RunOf(c, 1).invoked) = calls[c].idx - 1
       /\ ~Issued(calls[c], "write")
       /\ ~Issued(calls[c], "cascade")

\* A handler threw while handlers registered after it were still to run.
C2_Witness ==
    \E c \in Calls :
       /\ ThrewInBefore(calls[c])
       /\ calls[c].errIn = "custThrow"
       /\ calls[c].idx < Len(hooks[calls[c].errAt])
       /\ calls[c].idx > 1

\* ---- C3
AwaitsCascade(f) == Active(f) /\ f.captured.present /\ f.consumed = <<>>

\* C3: for two overlapping inserts into the same table, the payload each insert's
\* afterInsert cascade consumes is the one its own beforeInsert captured; the
\* entry of one is never overwritten by, or handed to, the other.
C3_CascadeContextPerInsert ==
    \A c \in Calls : \A d \in Calls \ {c} :
       calls[c].op = "insert" /\ calls[d].op = "insert" =>
          /\ \A i \in 1..Len(calls[c].consumed) : calls[c].consumed[i].by # d
          /\ AwaitsCascade(calls[c]) => cascadeContextMap[RootTable].by # d

\* ---- C4
\* C4: once an insert or update has finished, resolved or rejected, the Cascade
\* Context holds no entry that this write captured.
C4_ContextClearedAtEnd ==
    \A c \in Calls :
       Finished(calls[c]) /\ calls[c].op \in {"insert", "update"} =>
          ~(cascadeContextMap[RootTable].present /\ cascadeContextMap[RootTable].by = c)

\* ---- C5
\* An update whose payload names the owner (id) and carries, for the
\* many-to-many property, an array of {id} objects and bare ids.
ReplacesSet(f) ==
    /\ f.op = "update" /\ HasId(f.data)
    /\ Has(f.data, "tags") /\ f.data["tags"].k = "array"
    /\ \A i \in 1..Len(f.data["tags"].items) :
          f.data["tags"].items[i].k \in {"object", "number", "string"}
\* The ids the array gives: item.id of an object item, the item itself for a
\* bare id.
GivenIds(f) ==
    [ i \in 1..Len(f.data["tags"].items) |-> f.data["tags"].items[i].n ]
SeqSet(q) == { q[i] : i \in 1..Len(q) }

\* The junction table j pairs the owner of f with exactly the ids of the
\* array (item.id of an object item, the item itself for a bare id), and the
\* rows of every other owner are as they were when the update began.
ReplacedIn(f, j) ==
    /\ OwnerRows(j, IdOf(f.data)) = BagOfSeq(GivenIds(f))
    /\ OtherRows(j, IdOf(f.data)) = OtherRows(f.pre, IdOf(f.data))

SameSetTwice(c, d) ==
    /\ d = c + 1
    /\ calls[c].pc = "done" /\ ReplacesSet(calls[c])
    /\ calls[d].pc = "done" /\ ReplacesSet(calls[d])
    /\ IdOf(calls[c].data) = IdOf(calls[d].data)
    /\ SeqSet(GivenIds(calls[c])) = SeqSet(GivenIds(calls[d]))
    /\ Len(GivenIds(calls[c])) = Cardinality(SeqSet(GivenIds(calls[c])))
    /\ Len(GivenIds(calls[d])) = Cardinality(SeqSet(GivenIds(calls[d])))

\* C6: replacing an owner's set with the same ids S twice in a row leaves exactly
\* |S| junction rows for the owner, the state the first replacement left.
C6_ReplaceTwiceIdempotent ==
    \A c \in Calls : \A d \in Calls :
       SameSetTwice(c, d) =>
          /\ BagSize(OwnerRows(calls[d].mid, IdOf(calls[d].data)))
                = Cardinality(SeqSet(GivenIds(calls[d])))
          /\ OwnerRows(calls[d].mid, IdOf(calls[d].data))
                = OwnerRows(calls[c].mid, IdOf(calls[c].data))
          /\ BagSize(OwnerRows(calls[d].post, IdOf(calls[d].data)))
                = Cardinality(SeqSet(GivenIds(calls[d])))
          /\ OwnerRows(calls[d].post, IdOf(calls[d].data))
                = OwnerRows(calls[c].post, IdOf(calls[c].data))
          /\ (\A e \in Calls : e > d => calls[e].pc = "idle")
                => OwnerRows(junction, IdOf(calls[d].data))
                      = OwnerRows(calls[c].post, IdOf(calls[c].data))

\* The same non-empty set was given twice.
C6_Witness ==
    \E c \in Calls : \E d \in Calls :
       /\ SameSetTwice(c, d)
       /\ Cardinality(SeqSet(GivenIds(calls[c]))) >= 2

\* ---- C7
\* C7: the statements of an update whose junction sync acts are seen by every
\* other reader all together or not at all: at no moment (so at no crash
\* point) are the owner's junction rows deleted with the new rows still to be
\* inserted, or the junction replaced with the owner's update still to be
\* applied.
C7_SyncAtomicWithUpdate ==
    \A c \in Calls :
       calls[c].op = "update" /\ Issued(calls[c], "junctionDelete") =>
          /\ Len(GivenIds(calls[c])) > 0 => Issued(calls[c], "junctionInsert")
          /\ Issued(calls[c], "write")

\* ---- C8
LinkedIds(j, owner) == DOMAIN OwnerRows(j, owner)

\* C8: once two overlapping updates of the same owner's set have both resolved,
\* the set of ids linked to the owner is the id set of one of the two
\* updates, never their union or another mixture.
C8_LastCommitWins ==
    \A c \in Calls : \A d \in Calls \ {c} :
       /\ calls[c].pc = "done" /\ ReplacesSet(calls[c])
       /\ calls[d].pc = "done" /\ ReplacesSet(calls[d])
       /\ IdOf(calls[c].data) = IdOf(calls[d].data)
       => \/ LinkedIds(junction, IdOf(calls[c].data)) = SeqSet(GivenIds(calls[c]))
          \/ LinkedIds(junction, IdOf(calls[c].data)) = SeqSet(GivenIds(calls[d]))

\* ---- C9
Position(f, s) == CHOOSE i \in 1..Len(f.trace) : f.trace[i].s = s
SyncStatements == {"junctionDelete", "junctionInsert"}

\* C9: on update every junction statement of the sync is issued by a handler of
\* the beforeUpdate chain and before the owner's update statement; when the
\* update statement is issued the sync is complete, and the chain that ran it
\* is the one that ran the owner's payload transforms.
C9_SyncBeforeOwnerUpdate ==
    \A c \in Calls : calls[c].op = "update" =>
       /\ \A i \in 1..Len(calls[c].trace) :
             calls[c].trace[i].s \in SyncStatements =>
                /\ calls[c].trace[i].ev = "beforeUpdate"
                /\ Issued(calls[c], "write") => i < Position(calls[c], "write")
       /\ Issued(calls[c], "write") =>
             /\ SyncApplies(calls[c].data) => Issued(calls[c], "junctionDelete")
             /\ SyncApplies(calls[c].data) /\ Len(NewIds(calls[c].data["tags"])) > 0
                   => Issued(calls[c], "junctionInsert")
             /\ RunOf(c, 1).event = "beforeUpdate"
             /\ \A h \in {"buCapture", "buStrip", "buJson", "buNonUpdatable", "buStamp"} :
                   \E k \in 1..Len(RunOf(c, 1).invoked) : RunOf(c, 1).invoked[k].h = h

\* An update with a non-empty set had its rows deleted and inserted, then its
\* own statement issued.
C9_Witness ==
    \E c \in Calls :
       /\ calls[c].op = "update"
       /\ Issued(calls[c], "junctionInsert") /\ Issued(calls[c], "write")
       /\ Position(calls[c], "junctionInsert") < Position(calls[c], "write")

\* ---- C10
ToOneRelations(tableName) ==
    { LookupTable(tableName).relations[i] : i \in
        { j \in 1..Len(LookupTable(tableName).relations) :
            LookupTable(tableName).relations[j].type \in {"many-to-one", "one-to-one"} } }
RelationNames(tableName) ==
    { LookupTable(tableName).relations[i].propertyName :
        i \in 1..Len(LookupTable(tableName).relations) }
\* The to-one relations of the record whose value gives a foreign key.
FkGiving(tableName, record) ==
    { r \in ToOneRelations(tableName) :
        /\ Has(record, r.propertyName)
        /\ record[r.propertyName].k \in {"null", "object", "number", "string"} }
FkTransformed == fkPc = "done" /\ LookupTable(fkTable).name # ""

\* Every to-one relation R present in the record is gone from the output, and
\* its FK column holds v.id for an object with an id, v for a bare
\* identifier, null for null.
C10_RelationsBecomeFk ==
    \A r \in ToOneRelations(fkTable) :
       Has(fkIn, r.propertyName) =>
          /\ ~Has(fkOut, r.propertyName)
          /\ LET v == fkIn[r.propertyName] IN
             /\ v.k = "object" => Has(fkOut, FkColumnOf(r)) /\ fkOut[FkColumnOf(r)] = Num(v.n)
             /\ v.k \in {"number", "string"} =>
                   Has(fkOut, FkColumnOf(r)) /\ fkOut[FkColumnOf(r)] = v
             /\ v.k = "null" => Has(fkOut, FkColumnOf(r)) /\ fkOut[FkColumnOf(r)] = Null

CarriedOver(keys) == \A x \in keys : Has(fkOut, x) /\ fkOut[x] = fkIn[x]

\* C10 as stated: transformRelationsToFK turns every to-one relation present
\* in the record into its FK column (v.id, v or null) and removes the relation
\* key, and every key that is not a relation name is carried over unchanged.
C10_AsStated ==
    FkTransformed =>
       /\ C10_RelationsBecomeFk
       /\ CarriedOver((DOMAIN fkIn) \ RelationNames(fkTable))

\* C10, with the carried-over keys made exact: the same, where the keys carried over unchanged are those that
\* are neither relation names nor the FK column that the transform sets from a
\* relation present in the record.
C10_RelationsToFK ==
    FkTransformed =>
       /\ C10_RelationsBecomeFk
       /\ CarriedOver((DOMAIN fkIn) \ (RelationNames(fkTable)
              \cup { FkColumnOf(r) : r \in FkGiving(fkTable, fkIn) }))

\* A record with an {id} reference, a null reference and plain columns went
\* through the transform.
C10_Witness ==
    /\ FkTransformed
    /\ Has(fkIn, "author") /\ fkIn["author"].k = "object"
    /\ Has(fkIn, "editor") /\ fkIn["editor"].k = "null"
    /\ Has(fkIn, "title") /\ Has(fkIn, "tags")
    /\ fkOut["authorId"] = Num(fkIn["author"].n)

\* ---- C11
\* An insert whose payload carries a many-to-one reference {id: X} and, for
\* the many-to-many property, an array of distinct {id} objects and bare ids.
InsertsRefs(f) ==
    /\ f.op = "insert"
    /\ Has(f.data, "author") /\ f.data["author"].k = "object"
    /\ Has(f.data, "tags") /\ f.data["tags"].k = "array"
    /\ \A i \in 1..Len(f.data["tags"].items) :
          f.data["tags"].items[i].k \in {"object", "number", "string"}
    /\ Len(GivenIds(f)) = Cardinality(SeqSet(GivenIds(f)))
Writes(f) == { i \in 1..Len(f.trace) : f.trace[i].s = "write" }

\* C11: when such an insert has resolved, it has issued one insert statement,
\* the row of the identity it returned is a new row whose FK column holds X,
\* and the junction rows of that identity pair it with exactly the k ids of
\* the array, one row each.
C11_InsertMaterializesRelations ==
    \A c \in Calls :
       calls[c].pc = "done" /\ InsertsRefs(calls[c]) =>
          LET newId == calls[c].out.n IN
          /\ Cardinality(Writes(calls[c])) = 1
          /\ newId \in DOMAIN rows /\ newId \notin DOMAIN SeedRows
          /\ \A d \in Calls \ {c} : calls[d].pc = "done" /\ calls[d].op = "insert"
                => calls[d].out.n # newId
          /\ Has(rows[newId], "authorId")
          /\ rows[newId]["authorId"] = Num(calls[c].data["author"].n)
          /\ OwnerRows(calls[c].post, newId) = BagOfSeq(GivenIds(calls[c]))
          /\ BagSize(OwnerRows(calls[c].post, newId)) = Len(calls[c].data["tags"].items)

\* ---- C12
InsertSteps == << "capture", "fk", "strip", "json", "stamp", "write", "cascade" >>
IsPrefix(p, q) == Len(p) <= Len(q) /\ p = SubSeq(q, 1, Len(p))
StepDone(f, s) == \E i \in 1..Len(f.steps) : f.steps[i] = s

NonUpdatableColumns(tableName) ==
    { LookupTable(tableName).columns[i].name : i \in
        { j \in 1..Len(LookupTable(tableName).columns) :
            LookupTable(tableName).columns[j].isUpdatable = FALSE } }
\* The payload the wrapped update passes to the original update statement.
UpdatePayload(c) == RunOf(c, 1).result
PayloadReady(c) ==
    calls[c].op = "update" /\ IsRun(c, 1) /\ RunOf(c, 1).finished

\* C13: the payload that the beforeUpdate chain hands to the backend update
\* holds no column marked non-updatable and no createdAt, whatever the caller
\* supplied; once the update statement is issued, the stored row has the
\* createdAt it had and still no value for the non-updatable column.
C13_NoNonUpdatableInUpdate ==
    \A c \in Calls : PayloadReady(c) =>
       /\ (DOMAIN UpdatePayload(c)) \cap NonUpdatableColumns(RootTable) = {}
       /\ ~Has(UpdatePayload(c), "createdAt")
       /\ Issued(calls[c], "write") /\ calls[c].whereId \in DOMAIN rows =>
             /\ rows[calls[c].whereId]["createdAt"] = SeedRows[calls[c].whereId]["createdAt"]
             /\ \A k \in NonUpdatableColumns(RootTable) : ~Has(rows[calls[c].whereId], k)

\* The caller supplied a non-updatable column and createdAt next to an
\* updatable column, and the update statement was issued.
C13_Witness ==
    \E c \in Calls :
       /\ PayloadReady(c) /\ Issued(calls[c], "write")
       /\ Has(calls[c].data, "slug") /\ Has(calls[c].data, "createdAt")
       /\ Has(UpdatePayload(c), "title") /\ Has(UpdatePayload(c), "updatedAt")

\* ----------------------------------------------------------- select claims
SelDone == selPc = "done"
\* The stored rows that satisfy every equality of a filter object, by position.
Matching(filter) ==
    { i \in 1..Len(SelTable) : \A k \in DOMAIN filter : SelTable[i][k] = filter[k] }
\* The order a request asks for: by the sort field, descending under a leading
\* '-'; the stored order when it names no sort.
Before(o, i, j) ==
    IF o.sort = <<>> THEN i < j
    ELSE IF o.sort[1] = "-" THEN SelTable[i][o.sort[2]] > SelTable[j][o.sort[2]]
    ELSE SelTable[i][o.sort[1]] < SelTable[j][o.sort[1]]
\* Position of stored row i in the filtered, sorted result of request o.
Rank(o, i) == Cardinality({ j \in Matching(o.filter) : Before(o, j, i) }) + 1
RowAt(o, n) == SelTable[CHOOSE i \in Matching(o.filter) : Rank(o, i) = n]
\* A returned row shows a stored row: every column it holds has that row's value.
ShowsRow(shown, row) == \A k \in DOMAIN shown : k \in DOMAIN row /\ shown[k] = row[k]
Paged(o) == o.page # Absent /\ o.page >= 1 /\ o.limit # Absent /\ o.limit > 0
\* Number of rows at positions (page-1)*limit+1 .. page*limit.
PageSize(o) ==
    LET rest == Cardinality(Matching(o.filter)) - (o.page - 1) * o.limit
    IN IF rest <= 0 THEN 0 ELSE IF rest < o.limit THEN rest ELSE o.limit

\* C14: a select with page and limit > 0 returns the rows at positions
\* (page-1)*limit+1 .. page*limit of the filtered, sorted result, in that order.
C14_PageWindow ==
    SelDone /\ Paged(selReq) =>
       /\ Len(selOut.data) = PageSize(selReq)
       /\ \A n \in 1..Len(selOut.data) :
             ShowsRow(selOut.data[n], RowAt(selReq, (selReq.page - 1) * selReq.limit + n))

\* The request asks for no window: limit is 0, or neither limit nor page is set.
Unlimited(o) == o.limit = 0 \/ (o.limit = Absent /\ o.page = Absent)
\* The response's rows are the matching rows, each once, in any order.
AllMatching(o, data) ==
    /\ Len(data) = Cardinality(Matching(o.filter))
    /\ \A n \in 1..Len(data) : \E i \in Matching(o.filter) : ShowsRow(data[n], SelTable[i])
    /\ \A i \in Matching(o.filter) : \E n \in 1..Len(data) : ShowsRow(data[n], SelTable[i])
    /\ \A m, n \in 1..Len(data) :
          m # n /\ "id" \in DOMAIN data[m] /\ "id" \in DOMAIN data[n] => data[m]["id"] # data[n]["id"]

SortField(o) == IF o.sort[1] = "-" THEN o.sort[2] ELSE o.sort[1]
SortDescending(o) == o.sort[1] = "-"
\* Rows that hold the key are in the asked order of it.
OrderedBy(data, key, descending) ==
    \A m, n \in 1..Len(data) :
       m < n /\ key \in DOMAIN data[m] /\ key \in DOMAIN data[n] =>
          IF descending THEN data[m][key] >= data[n][key] ELSE data[m][key] <= data[n][key]

\* C16: the rows of a select that names a sort are ordered by the named root
\* field, descending under a leading '-' and ascending otherwise, on either
\* backend, with or without a field selection.
C16_SortedByRootField ==
    SelDone /\ selReq.sort # <<>> =>
       OrderedBy(selOut.data, SortField(selReq), SortDescending(selReq))

\* The counts a request's meta names.
NamedCounts(o) ==
    { x \in {"totalCount", "filterCount"} : x \in o.meta \/ "*" \in o.meta }

\* C17: a count is computed only when the request's meta names it: the count
\* query is issued only for totalCount, the windowed count only for
\* filterCount; with no meta neither is issued and the response has no meta
\* field; a meta field holds the named counts and no other, and the SQL
\* executor returns one exactly when meta is requested.
C17_CountsOnlyOnRequest ==
    SelDone =>
       /\ selOut.countQuery => "totalCount" \in NamedCounts(selReq)
       /\ selOut.windowCount => "filterCount" \in NamedCounts(selReq)
       /\ selReq.meta = {} => ~selOut.countQuery /\ ~selOut.windowCount /\ ~selOut.hasMeta
       /\ ~selOut.hasMeta => selOut.meta = NoRow
       /\ selOut.hasMeta => DOMAIN selOut.meta = NamedCounts(selReq)
       /\ selReq.dbType # "mongodb" => (selOut.hasMeta <=> selReq.meta # {})

\* The SQL executor answered a request naming filterCount alone: the windowed
\* count was issued, the count query was not, meta holds filterCount only.
C17_Witness ==
    /\ SelDone /\ selReq.dbType = "mysql" /\ selReq.meta = {"filterCount"}
    /\ selOut.hasMeta /\ DOMAIN selOut.meta = {"filterCount"}
    /\ selOut.windowCount /\ ~selOut.countQuery

\* C18: in a response of the SQL executor, a requested filterCount is the
\* number of rows that match the filter, whatever page and limit are, and data
\* holds at most limit rows; a requested totalCount is the number of rows of
\* the table.
C18_CountsAreExact ==
    SelDone /\ selReq.dbType # "mongodb" =>
       /\ "filterCount" \in NamedCounts(selReq) =>
             /\ "filterCount" \in DOMAIN selOut.meta
             /\ selOut.meta["filterCount"] = Cardinality(Matching(selReq.filter))
             /\ (selReq.limit # Absent /\ selReq.limit > 0 => Len(selOut.data) <= selReq.limit)
       /\ "totalCount" \in NamedCounts(selReq) =>
             /\ "totalCount" \in DOMAIN selOut.meta
             /\ selOut.meta["totalCount"] = Len(SelTable)

\* The envelope of a response: whether it has a meta field and the counts in it.
Envelope(out) == [hasMeta |-> out.hasMeta, counts |-> DOMAIN out.meta]

\* C19: a select that requests meta gets, on the document backend, the
\* envelope the SQL backend gives the same request: data and a meta object
\* that holds the requested counts.
C19_SameEnvelope ==
    SelDone /\ selReq.meta # {} =>
       /\ Envelope(selOut) = Envelope(sqlExecutor(selReq))
       /\ selOut.hasMeta /\ DOMAIN selOut.meta = NamedCounts(selReq)

\* -------------------------------------------------------- where-list claims
\* C20: for every where list of equality conditions on root columns, the SQL
\* path and the document path select the same logical rows of the mirrored
\* data.
C20_SameRowsOnBothBackends ==
    whPc = "done" => whOut.sql = whOut.mongo

\* ------------------------------------------------------ filter-tree claims
FilterDone == flPc = "done"
\* Stored rows by identity, and the identities a response holds.
RowOfId(id) == SelTable[CHOOSE i \in 1..Len(SelTable) : SelTable[i]["id"] = id]
ReturnedIds(data) == { data[n]["id"] : n \in 1..Len(data) }
AllIds == { SelTable[i]["id"] : i \in 1..Len(SelTable) }
\* The filter is one nested filter under the relation tags: { tags: { id: { _eq: t } } }.
IsRelationFilter(filter) ==
    Len(filter) = 1 /\ filter[1].key = "tags" /\ Len(filter[1].ops) = 1
       /\ filter[1].ops[1].op = "id" /\ filter[1].ops[1].sub = "_eq"
\* The articles joined to a tag that satisfies the nested filter.
JoinedTo(filter) == { id \in AllIds : filter[1].ops[1].val \in SelTags[id] }

\* C21: a select on the document backend whose filter is a nested filter
\* under the relation tags returns only articles joined to a tag that
\* satisfies the nested filter.
C21_RelationFilterRestricts ==
    FilterDone /\ IsRelationFilter(flReq.filter) =>
       ReturnedIds(flOut.data) \subseteq JoinedTo(flReq.filter)

\* A filter without logical key holds of a row when each entry does: a bare
\* value equals the column, each operator of an operator object holds, as
\* the document store's primitive for it decides ($ne and $nin hold of null).
OperatorHolds(v, op, val) ==
    CASE op = "_eq" -> v # NullValue /\ v = val
      [] op = "_neq" -> v # val
      [] op = "_gt" -> v # NullValue /\ v > val
      [] op = "_gte" -> v # NullValue /\ v >= val
      [] op = "_lt" -> v # NullValue /\ v < val
      [] op = "_lte" -> v # NullValue /\ v <= val
      [] op = "_contains" -> v # NullValue /\ v = val
      [] op = "_in" -> \E i \in 1..Len(val) : val[i] = v
      [] op = "_not_in" -> \A i \in 1..Len(val) : val[i] # v
      [] op = "_is_null" -> v = NullValue
      [] op = "_is_not_null" -> v # NullValue
EntrySatisfied(row, e) ==
    IF e.kind = "value" THEN row[e.key] = e.value
    ELSE \A i \in 1..Len(e.ops) : OperatorHolds(row[e.key], e.ops[i].op, e.ops[i].val)
Satisfies(row, filter) == \A i \in 1..Len(filter) : EntrySatisfied(row, filter[i])
\* A filter that is one logical combinator over filters without logical key.
IsLogicalFilter(filter) == Len(filter) = 1 /\ filter[1].key \in LogicalKeys
CombinationHolds(row, e) ==
    CASE e.key = "_and" -> \A i \in 1..Len(e.children) : Satisfies(row, e.children[i])
      [] e.key = "_or" -> \E i \in 1..Len(e.children) : Satisfies(row, e.children[i])
      [] e.key = "_not" -> ~Satisfies(row, e.children[1])

\* C22: a select on the document backend whose filter is a logical
\* combinator returns exactly the rows that satisfy the boolean combination
\* of its children, not negating its single child.
C22_LogicalCombination ==
    FilterDone /\ IsLogicalFilter(flReq.filter) =>
       ReturnedIds(flOut.data) =
          { id \in AllIds : CombinationHolds(RowOfId(id), flReq.filter[1]) }

\* A filter of operator objects on root columns, every key from the vocabulary.
VocabularyKeys == ScalarKeys \cup MembershipKeys \cup NullKeys
IsVocabularyFilter(filter) ==
    /\ filter # <<>>
    /\ \A i \in 1..Len(filter) :
          /\ filter[i].key \in FilterColumns /\ filter[i].kind = "object"
          /\ \A j \in 1..Len(filter[i].ops) : filter[i].ops[j].op \in VocabularyKeys

\* C23: every operator of the vocabulary in a request filter constrains the
\* result of a select on the document backend: each returned row satisfies
\* each operator of the filter.
C23_EveryOperatorConstrains ==
    FilterDone /\ IsVocabularyFilter(flReq.filter) =>
       \A id \in ReturnedIds(flOut.data) : Satisfies(RowOfId(id), flReq.filter)

\* The filter has an operator key outside the vocabulary.
HasUnknownOperator(filter) ==
    \E i \in 1..Len(filter) :
       filter[i].key \in FilterColumns /\ filter[i].kind = "object"
       /\ \E j \in 1..Len(filter[i].ops) : filter[i].ops[j].op \in UnknownKeys

\* C24: a request filter with an operator outside the vocabulary is rejected
\* with an error: no condition carries a rewritten operator string and no
\* rows are returned by a query run without the condition.
C24_UnknownOperatorRejected ==
    FilterDone /\ HasUnknownOperator(flReq.filter) =>
       /\ flOut.threw
       /\ \A i \in 1..Len(flOut.where) : flOut.where[i].operator \in KnownOperators
       /\ flOut.data = <<>>

\* ---------------------------------------------------- identifier-rule claims
\* What the rule makes of one value given for the identity field.
Coerced(v) == IF v.t = "hex" THEN [t |-> "objectId", n |-> v.n] ELSE v

\* C25: on the document backend a condition on id is put under _id, a string
\* that is the text of an identity is coerced to the native identity, any
\* other value passes through unchanged, and no error is raised, for every
\* operator and for the by-id lookups.
C25_IdentifierRule ==
    idPc = "done" =>
       /\ ~idOut.threw
       /\ idReq.via # "convert" /\ idReq.field[Len(idReq.field)] = "id" => idOut.name = "_id"
       /\ idOut.name = "_id" =>
             /\ Len(idOut.values) = Len(idReq.values)
             /\ \A i \in 1..Len(idReq.values) : idOut.values[i] = Coerced(idReq.values[i])
       /\ idOut.name # "_id" => idOut.values = idReq.values

\* ------------------------------------------------------ field-expansion claims
ExpandDone == exPc = "done" /\ exReq.hasCache /\ exReq.table \in TableNames
ExpandMeta == LookupTable(exReq.table)
ExpandColumns == { ExpandMeta.columns[i].name : i \in 1..Len(ExpandMeta.columns) }
ExpandRelations ==
    { ExpandMeta.relations[i].propertyName : i \in 1..Len(ExpandMeta.relations) }
Requested == { exReq.fields[i] : i \in 1..Len(exReq.fields) }
Occurrences(list, x) == Cardinality({ i \in 1..Len(list) : list[i] = x })
EntriesOf(name) == { i \in 1..Len(exOut.relations) : exOut.relations[i].propertyName = name }
\* The remaining paths explicitly requested under a relation, in request order.
ExplicitPaths(name) ==
    LET under == SelectSeq(exReq.fields, LAMBDA f : Len(f) > 1 /\ f[1] = name)
    IN [ i \in 1..Len(under) |-> Tail(under[i]) ]
\* "*" is requested, and what is requested beside it is columns and paths.
StarRequested ==
    /\ ExpandDone
    /\ Star \in Requested
    /\ \A f \in Requested : Len(f) = 1 /\ f # Star => f[1] \in ExpandColumns

\* C26: expanding "*" yields every scalar column exactly once and nothing
\* else as scalar field, and every relation exactly once: with the nested
\* fields explicitly requested for it, or with the identifier alone.
C26_StarExpansion ==
    StarRequested =>
       /\ Len(exOut.scalarFields) = Cardinality(ExpandColumns)
       /\ \A c \in ExpandColumns : Occurrences(exOut.scalarFields, c) = 1
       /\ Len(exOut.relations) = Cardinality(ExpandRelations)
       /\ \A r \in ExpandRelations :
             /\ Cardinality(EntriesOf(r)) = 1
             /\ \A i \in EntriesOf(r) :
                   exOut.relations[i].nestedFields =
                      IF ExplicitPaths(r) # <<>> THEN ExplicitPaths(r) ELSE << << "id" >> >>
\* "*" was expanded together with a column named again and with an explicit
\* relation path.
C26_Witness ==
    /\ StarRequested
    /\ << "title" >> \in Requested
    /\ << "tags", "name" >> \in Requested
    /\ Len(exOut.relations) = 4

IsUnknownPath(f) == Len(f) > 1 /\ f[1] \notin ExpandRelations
KnownFields == SelectSeq(exReq.fields, LAMBDA f : ~IsUnknownPath(f))

\* C27: a path whose first segment names no relation is skipped with a
\* warning: the expansion does not fail and yields the scalar fields and the
\* relation entries of the same request without that path.
C27_UnknownRelationSkipped ==
    ExpandDone =>
       /\ ~exOut.threw
       /\ exOut.warned = { f[1] : f \in { g \in Requested : IsUnknownPath(g) } }
       /\ exOut.scalarFields = expandFieldsMongo(TRUE, exReq.table, KnownFields).scalarFields
       /\ exOut.relations = expandFieldsMongo(TRUE, exReq.table, KnownFields).relations
\* An unknown path was requested between a scalar field and a relation path.
C27_Witness ==
    /\ ExpandDone
    /\ exReq.fields = << << "title" >>, << "bogus", "x" >>, << "tags", "name" >> >>
    /\ exOut.warned = { "bogus" }
    /\ Len(exOut.relations) = 1

\* ---------------------------------------------------------------- delete claims
\* What one condition of a where list asks of a row.
ConditionHolds(row, c) ==
    LET v == row[c.field[Len(c.field)]]
    IN CASE c.operator = "=" -> v = c.value
         [] c.operator = ">" -> v > c.value
         [] c.operator = "<" -> v < c.value
\* The articles the delete is asked to remove.
ToDelete ==
    IF delReq.via = "deleteById" THEN { delReq.id } \cap AllIds
    ELSE { id \in AllIds :
             \A i \in 1..Len(delReq.where) : ConditionHolds(RowOfId(id), delReq.where[i]) }

\* C28: a delete removes the rows of the target table that match the filter
\* and no other row: the rows that do not match stay as they were, and so do
\* the rows of other tables that refer to the removed rows and the junction
\* rows that name them.
C28_DeleteRemovesOnlyMatching ==
    delPc = "done" =>
       /\ delOut.tables.article = SelectSeq(SelTable, LAMBDA row : row["id"] \notin ToDelete)
       /\ delOut.tables.comment = DelComments
       /\ delOut.tables.article_tags = DelJunction

\* ------------------------------------------------------------ transaction claims
TxDone == txPc = "done"
TxFails == txReq.callbackFails \/ txReq.commitFails
\* The error the caller should see: the callback's, or else the commit's.
OriginalError == IF txReq.callbackFails THEN "callback" ELSE "commit"

\* C29: a transaction whose callback completes is committed exactly once and
\* returns the callback's result; when the callback or the commit fails it is
\* aborted, the original error reaches the caller and no inner write is
\* visible; it is never both committed and aborted, and on the document
\* backend the session is ended in every case.
C29_TransactionOutcome ==
    TxDone =>
       /\ ~TxFails => /\ txSt.commits = 1 /\ txSt.aborts = 0
                      /\ txSt.result = txReq.write /\ txSt.error = ""
                      /\ txSt.store = { txReq.write }
       /\ TxFails => /\ txSt.aborts = 1 /\ txSt.commits = 0
                     /\ txSt.error = OriginalError
                     /\ txSt.store = {}
       /\ ~(txSt.commits > 0 /\ txSt.aborts > 0)
       /\ txReq.dbType = "mongodb" => txSt.ended = 1

\* ------------------------------------------------------- cascade failure claims
\* The call is the only one begun so far and was rejected while materializing
\* its relations: in the many-to-many sync of its first before-handler or in
\* the cascade of its after-hook.
CascadeFailed(c) ==
    /\ calls[c].pc = "failed"
    /\ \A d \in Calls \ { c } : calls[d].pc = "idle"
    /\ calls[c].err \in { "BackendError", "TypeError" }
    /\ calls[c].errIn # ""
FailedInsert(c) == CascadeFailed(c) /\ calls[c].op = "insert"
FailedUpdate(c) == CascadeFailed(c) /\ calls[c].op = "update"

\* C30: when the materialization of the relations fails, the whole write
\* fails: a failed insert leaves no root row, a failed update leaves neither a
\* change of the owner's columns nor a change of its junction rows.
C30_CascadeFailureFailsWrite ==
    \A c \in Calls :
       /\ FailedInsert(c) => rows = SeedRows /\ junction = SeedJunction
       /\ FailedUpdate(c) => rows = SeedRows /\ junction = SeedJunction

\* ------------------------------------------------------- inverse relation claims
\* A relation with inversePropertyName was declared between two tables of the
\* snapshot and its rows were made.
InverseMade ==
    /\ ivPc = "done"
    /\ ivReq.relation.inversePropertyName # ""
    /\ ivReq.relation.targetTable \in DOMAIN InitTableIds
SymmetricType(type) ==
    IF type = "many-to-one" THEN "one-to-many"
    ELSE IF type = "one-to-many" THEN "many-to-one" ELSE type

\* C31: the inverse of a relation has the symmetric type, belongs to the
\* target table and points back at the source table; for many-to-many it has
\* the junction table of the direct relation with the two junction columns
\* swapped, also when the direct relation declares its junction names.
C31_InverseIsSymmetric ==
    InverseMade =>
       /\ Len(ivOut) = 2
       /\ ~ivOut[1].isInverse /\ ivOut[2].isInverse
       /\ ivOut[2].propertyName = ivReq.relation.inversePropertyName
       /\ ivOut[2].type = SymmetricType(ivReq.relation.type)
       /\ ivOut[2].sourceTableId = ivOut[1].targetTableId
       /\ ivOut[2].targetTableId = ivOut[1].sourceTableId
       /\ ivReq.relation.type = "many-to-many" =>
             /\ ivOut[2].junctionTableName = ivOut[1].junctionTableName
             /\ ivOut[2].junctionSourceColumn = ivOut[1].junctionTargetColumn
             /\ ivOut[2].junctionTargetColumn = ivOut[1].junctionSourceColumn

\* ------------------------------------------------------- update cascade claims
\* C32: the cascade of an update's afterUpdate is applied once, to the id of
\* the record that call updates and with the relation payload that call's
\* beforeUpdate captured, whatever other updates or inserts on the table run
\* in between.
C32_UpdateCascadeOwnContext ==
    \A c \in Calls :
       calls[c].op = "update" /\ calls[c].pc = "done" =>
          /\ Len(calls[c].consumed) = 1
          /\ \A i \in 1..Len(calls[c].consumed) :
                /\ calls[c].consumed[i].by = c
                /\ calls[c].consumed[i].recordId = calls[c].whereId
                /\ calls[c].consumed[i].relationData = calls[c].captured.relationData


\* ------------------------------------------------------------ registration claims
\* C33: no addHook or removeHook changes the chain of an event while a run of
\* that event is under way, and every finished run has called exactly the
\* handlers registered when it started, each once and in order.
C33_RegistrationApartFromRuns ==
    \A c \in Calls : \A i \in 1..Len(calls[c].runs) :
       /\ ~RunOf(c, i).touched
       /\ RunOf(c, i).finished => Handlers(RunOf(c, i)) = RunOf(c, i).chain0


\* ------------------------------------------------------------ junction frame claims
\* The call is an update and the only call begun so far.
UpdateAlone(c) ==
    /\ calls[c].op = "update" /\ calls[c].pc # "idle"
    /\ \A d \in Calls \ { c } : calls[d].pc = "idle"
\* The payload carries an array for the many-to-many property tags.
CarriesTagList(data) == "tags" \in DOMAIN data /\ data["tags"].k = "array"
CarriesId(data) == "id" \in DOMAIN data /\ data["id"].k \in { "number", "string" }

\* C34: an update whose payload carries no array for the many-to-many
\* property (absent, null or another value), or carries no id, leaves the
\* junction rows as they were.
C34_NoListNoJunctionChange ==
    \A c \in Calls :
       UpdateAlone(c) /\ (~CarriesTagList(calls[c].data) \/ ~CarriesId(calls[c].data))
          => junction = SeedJunction


\* --------------------------------------------------------------- payload claims
\* The payload the before-chain of a call hands to the backend write.
Written(c) == RunOf(c, 1).result
BeforeChainDone(c) ==
    /\ calls[c].op \in { "insert", "update" }
    /\ IsRun(c, 1) /\ RunOf(c, 1).finished
ValidKeys ==
    { ArticleMeta.columns[i].name : i \in 1..Len(ArticleMeta.columns) }
    \cup { ArticleMeta.relations[i].foreignKeyColumn : i \in 1..Len(ArticleMeta.relations) }
\* The payload supplies the many-to-one relation author as {id} or as a bare id.
SuppliesAuthor(data) ==
    "author" \in DOMAIN data /\ data["author"].k \in { "object", "number" }

\* C35: every key of the payload handed to the backend after the beforeInsert
\* or beforeUpdate chain is a column of the table or the foreign key column of
\* one of its relations, whatever hooks run after the strip, and the foreign
\* key made from a supplied many-to-one relation is in that payload.
C35_OnlyColumnsReachBackend ==
    \A c \in Calls :
       BeforeChainDone(c) =>
          /\ DOMAIN Written(c) \subseteq (ValidKeys \ { "" })
          /\ SuppliesAuthor(calls[c].data) =>
                /\ "authorId" \in DOMAIN Written(c)
                /\ Written(c)["authorId"].n = calls[c].data["author"].n


\* ---------------------------------------------------------- select hook claims
BeforeSelectThrows ==
    \E i \in 1..Len(thReq.beforeSelect) :
       /\ thReq.beforeSelect[i] = "throw"
       /\ \A j \in 1..(i - 1) : thReq.beforeSelect[j] = "pass"

\* C36: the beforeSelect chain has run to its end before the query is
\* executed and its result handed to afterSelect, and a failure of a
\* beforeSelect handler aborts the select and reaches the caller.
C36_BeforeSelectFirst ==
    /\ thPc # "off" /\ thSt.query # "none" =>
          thSt.before = "finished" /\ thSt.returned = Len(thReq.beforeSelect)
    /\ thPc = "done" /\ BeforeSelectThrows =>
          thSt.query = "none" /\ thSt.outcome = "rejected" /\ thSt.error = "beforeSelect"


\* ------------------------------------------------- junction rows and the root row
\* C37: in an insert no junction statement is issued before the root insert
\* statement has succeeded, the insert supplying its own id included, and an
\* insert whose root statement was never executed leaves the junction table as
\* it found it.
C37_JunctionRowsAfterRoot ==
    \A c \in Calls : calls[c].op = "insert" =>
       /\ \A i \in 1..Len(calls[c].trace) :
             calls[c].trace[i].s \in SyncStatements =>
                Issued(calls[c], "write") /\ Position(calls[c], "write") < i
       /\ calls[c].pc = "failed" /\ ~Issued(calls[c], "write") =>
             junction = calls[c].pre


\* C38: after any sequence of inserts and updates the junction table holds no
\* two rows with the same (owner id, target id), a supplied list that repeats
\* an id included.
C38_NoDuplicateJunctionRows ==
    (\A c \in Calls : ~Active(calls[c])) =>
       \A p \in DOMAIN junction : junction[p] <= 1


\* ------------------------------------------- several operators for one field
\* The filter holds an operator object with more than one operator for a column.
HasSeveralOperators(filter) ==
    \E i \in 1..Len(filter) :
       filter[i].key \in FilterColumns /\ filter[i].kind = "object" /\ Len(filter[i].ops) > 1
\* The rows for which every operator of every operator object holds.
ConjunctionIds(filter) ==
    { id \in AllIds :
        \A i \in 1..Len(filter) : \A j \in 1..Len(filter[i].ops) :
           OperatorHolds(RowOfId(id)[filter[i].key], filter[i].ops[j].op, filter[i].ops[j].val) }

\* C39: when a request gives several operators for the same field, the select
\* on the document backend returns the rows that satisfy all of them, which
\* are the rows the SQL query built from the same conditions selects; no
\* operator overwrites another.
C39_SeveralOperatorsConjoin ==
    FilterDone /\ HasSeveralOperators(flReq.filter) =>
       /\ ReturnedIds(flOut.data) = ConjunctionIds(flReq.filter)
       /\ ReturnedIds(flOut.data) = IdsOf(applyWhereToKnex(SelTable, flOut.where))

====
